---- MODULE Spec2Model ----
(***************************************************************************)
(* rlox: scanner, recursive-descent parser, chained environments and the   *)
(* tree-walking evaluator, modelled as one state machine.                  *)
(*                                                                         *)
(* Text is a sequence of one-character strings.  A Number is an exact      *)
(* fraction num/den (den > 0, lowest terms); the literals of the bounded   *)
(* inputs are small integers and the operators are applied at most a few   *)
(* times, so that every Number that occurs is a dyadic fraction, on which  *)
(* f64 arithmetic is exact.                                                *)
(***************************************************************************)
EXTENDS Integers, Sequences, FiniteSets, TLC

VARIABLES
    pc,       \* "idle", "exec", "unwind" or "done": where the call is
    call,     \* the entry point that was called: "run", "parse" or "interpret"
    source,   \* the text handed to run
    tokens,   \* the tokens handed to parse
    pos,      \* the parser's iterator: index of the next token
    stmts,    \* the statements parsed so far, then the ones handed to interpret
    errors,   \* the ParseErrors recorded so far
    scopes,   \* the live Environments; scopes[1] is the global one
    frames,   \* the evaluator's call stack, innermost call last
    raised,   \* the RuntimeError that is propagating
    output,   \* the lines printed
    result,   \* what the call returned
    evals     \* the expressions the last statement handed to evaluate_expression

vars == <<pc, call, source, tokens, pos, stmts, errors, scopes, frames, raised,
          output, result, evals>>

(***************************************************************************)
(* Runtime values (value.rs)                                               *)
(***************************************************************************)
NilValue == [t |-> "Nil"]

TrueValue == [t |-> "Boolean", b |-> TRUE]

FalseValue == [t |-> "Boolean", b |-> FALSE]

BooleanValue(b) == IF b THEN TrueValue ELSE FalseValue

StrValue(s) == [t |-> "Str", s |-> s]

Abs(n) == IF n < 0 THEN -n ELSE n

RECURSIVE Gcd(_, _)
Gcd(a, b) == IF b = 0 THEN a ELSE Gcd(b, a % b)

\* f64 restricted to the exact fractions: num/den in lowest terms
NumberValue(num, den) ==
    LET n == IF den < 0 THEN -num ELSE num
        d == Abs(den)
        g == Gcd(Abs(n), d)
    IN  [t |-> "Number", num |-> n \div g, den |-> d \div g]

Num(n) == NumberValue(n, 1)

DigitChar == <<"0", "1", "2", "3", "4", "5", "6", "7", "8", "9">>

RECURSIVE NatDigits(_)
NatDigits(n) ==
    IF n < 10 THEN <<DigitChar[n + 1]>>
    ELSE NatDigits(n \div 10) \o <<DigitChar[(n % 10) + 1]>>

RECURSIVE FracDigits(_, _)
FracDigits(num, den) ==
    IF num = 0 THEN <<>>
    ELSE <<DigitChar[((num * 10) \div den) + 1]>> \o FracDigits((num * 10) % den, den)

\* f64::to_string: shortest decimal text, no trailing ".0"
NumberToString(num, den) ==
    LET a == Abs(num)
        sign == IF num < 0 THEN <<"-">> ELSE <<>>
        whole == NatDigits(a \div den)
        frac == FracDigits(a % den, den)
    IN  sign \o whole \o (IF frac = <<>> THEN <<>> ELSE <<".">> \o frac)

\* impl fmt::Display for Value
ValueToString(v) ==
    CASE v.t = "Nil" -> <<"n", "i", "l">>
      [] v.t = "Str" -> v.s
      [] v.t = "Number" -> NumberToString(v.num, v.den)
      [] v.t = "Boolean" -> IF v.b THEN <<"t", "r", "u", "e">> ELSE <<"f", "a", "l", "s", "e">>

(***************************************************************************)
(* Tokens (token.rs)                                                       *)
(***************************************************************************)
NoLiteral == [t |-> "None"]

Lexemes ==
    "LeftParen" :> <<"(">> @@ "RightParen" :> <<")">> @@
    "LeftBrace" :> <<"{">> @@ "RightBrace" :> <<"}">> @@ "Comma" :> <<",">> @@
    "Dot" :> <<".">> @@ "Minus" :> <<"-">> @@ "Plus" :> <<"+">> @@
    "Semicolon" :> <<";">> @@ "Slash" :> <<"/">> @@ "Star" :> <<"*">> @@
    "BangEqual" :> <<"!", "=">> @@ "Bang" :> <<"!">> @@
    "EqualEqual" :> <<"=", "=">> @@ "Equal" :> <<"=">> @@
    "GreaterEqual" :> <<">", "=">> @@ "Greater" :> <<">">> @@
    "LessEqual" :> <<"<", "=">> @@ "Less" :> <<"<">> @@
    "And" :> <<"a", "n", "d">> @@ "Class" :> <<"c", "l", "a", "s", "s">> @@
    "Else" :> <<"e", "l", "s", "e">> @@ "Fun" :> <<"f", "u", "n">> @@
    "For" :> <<"f", "o", "r">> @@ "If" :> <<"i", "f">> @@
    "Or" :> <<"o", "r">> @@ "Print" :> <<"p", "r", "i", "n", "t">> @@
    "Return" :> <<"r", "e", "t", "u", "r", "n">> @@
    "Super" :> <<"s", "u", "p", "e", "r">> @@
    "This" :> <<"t", "h", "i", "s">> @@ "Var" :> <<"v", "a", "r">> @@
    "While" :> <<"w", "h", "i", "l", "e">> @@
    "Continue" :> <<"c", "o", "n", "t", "i", "n", "u", "e">> @@
    "Break" :> <<"b", "r", "e", "a", "k">> @@ "Eof" :> <<"E", "O", "F">> @@
    "False" :> <<"f", "a", "l", "s", "e">> @@ "Nil" :> <<"n", "i", "l">> @@
    "True" :> <<"t", "r", "u", "e">>

\* Token::literal for the tokens without a payload
SimpleLiteral(tt) ==
    CASE tt = "False" -> FalseValue
      [] tt = "Nil" -> NilValue
      [] tt = "True" -> TrueValue
      [] OTHER -> NoLiteral

TokenSimple(tt, line) ==
    [type |-> tt, lexeme |-> Lexemes[tt], literal |-> SimpleLiteral(tt), line |-> line]

\* what stands for a missing token: ParseError::new reports Eof on line 0
NoToken == TokenSimple("Eof", 0)

TokenWithLexeme(tt, lexeme, line) ==
    [type |-> tt, lexeme |-> lexeme, literal |-> NoLiteral, line |-> line]

TokenWithLiteral(tt, lexeme, literal, line) ==
    [type |-> tt, lexeme |-> lexeme, literal |-> literal, line |-> line]

(***************************************************************************)
(* Syntax trees (expression.rs, statement.rs)                              *)
(***************************************************************************)
ExprAssign(name, value) == [k |-> "Assign", name |-> name, value |-> value]

ExprBinary(left, operator, right) ==
    [k |-> "Binary", left |-> left, operator |-> operator, right |-> right]

ExprGrouping(expression) == [k |-> "Grouping", expression |-> expression]

ExprLiteral(value) == [k |-> "Literal", value |-> value]

ExprLogical(left, operator, right) ==
    [k |-> "Logical", left |-> left, operator |-> operator, right |-> right]

ExprUnary(operator, right) == [k |-> "Unary", operator |-> operator, right |-> right]

ExprVariable(name) == [k |-> "Variable", name |-> name]

\* Option::None of a statement or an expression
None == [k |-> "None"]

StmtBlock(statements) == [k |-> "Block", statements |-> statements]

StmtExpression(expression) == [k |-> "Expression", expression |-> expression]

StmtIf(expression, then_branch, else_branch) ==
    [k |-> "If", expression |-> expression, then_branch |-> then_branch,
     else_branch |-> else_branch]

StmtPrint(expression) == [k |-> "Print", expression |-> expression]

StmtVar(name, initializer) == [k |-> "Var", name |-> name, initializer |-> initializer]

StmtFor(initializer, condition, increment, body) ==
    [k |-> "For", initializer |-> initializer, condition |-> condition,
     increment |-> increment, body |-> body]

(***************************************************************************)
(* Environment (environment.rs).  The live environments are the elements   *)
(* of a sequence; an environment is addressed by its index and `enclosing` *)
(* is the index of the enclosing environment, 0 for none.                  *)
(***************************************************************************)
EmptyValues == [n \in {} |-> NilValue]

NewEnclosing(enclosing) == [values |-> EmptyValues, enclosing |-> enclosing]

Insert(values, name, value) ==
    [n \in (DOMAIN values) \cup {name} |-> IF n = name THEN value ELSE values[n]]

\* faulty variant: a name the scope already binds keeps its value
EnvDefineIfAbsent(envs, e, name, value) ==
    IF name \in DOMAIN envs[e].values THEN envs
    ELSE [envs EXCEPT ![e].values = Insert(@, name, value)]

EnvDefine(envs, e, name, value) ==
    [envs EXCEPT ![e].values = Insert(@, name, value)]

\* faulty variant: a name bound nowhere is created in the outermost scope
RECURSIVE EnvAssignImplicit(_, _, _, _)
EnvAssignImplicit(envs, e, name, value) ==
    IF name \notin DOMAIN envs[e].values /\ envs[e].enclosing # 0
    THEN EnvAssignImplicit(envs, envs[e].enclosing, name, value)
    ELSE [ok |-> TRUE, envs |-> [envs EXCEPT ![e].values = Insert(@, name, value)]]

RECURSIVE EnvAssign(_, _, _, _)
EnvAssign(envs, e, name, value) ==
    IF name \notin DOMAIN envs[e].values
    THEN IF envs[e].enclosing # 0
         THEN EnvAssign(envs, envs[e].enclosing, name, value)
         ELSE [ok |-> FALSE, envs |-> envs]
    ELSE [ok |-> TRUE, envs |-> [envs EXCEPT ![e].values = Insert(@, name, value)]]

\* faulty variant: the enclosing scopes are searched before the scope itself
RECURSIVE EnvGetOutermost(_, _, _)
EnvGetOutermost(envs, e, name) ==
    LET outer == IF envs[e].enclosing # 0
                 THEN EnvGetOutermost(envs, envs[e].enclosing, name)
                 ELSE [some |-> FALSE, value |-> NilValue]
    IN  IF outer.some THEN outer
        ELSE IF name \in DOMAIN envs[e].values
             THEN [some |-> TRUE, value |-> envs[e].values[name]]
             ELSE [some |-> FALSE, value |-> NilValue]

RECURSIVE EnvGet(_, _, _)
EnvGet(envs, e, name) ==
    IF name \in DOMAIN envs[e].values
    THEN [some |-> TRUE, value |-> envs[e].values[name]]
    ELSE IF envs[e].enclosing # 0
         THEN EnvGet(envs, envs[e].enclosing, name)
         ELSE [some |-> FALSE, value |-> NilValue]

(***************************************************************************)
(* Expression evaluation (interpreter.rs).  An evaluation returns          *)
(* [ok, value, error, envs, evals]: the result, the environments after the *)
(* side effects of the assignments it made, and the expressions handed to  *)
(* evaluate_expression in the order of the calls.                          *)
(***************************************************************************)
RuntimeError(location, message) == [message |-> message, line |-> location.line]

NoError == [message |-> "", line |-> 0]

Ok(value, envs, ev) ==
    [ok |-> TRUE, value |-> value, error |-> NoError, envs |-> envs, evals |-> ev]

Err(error, envs, ev) ==
    [ok |-> FALSE, value |-> NilValue, error |-> error, envs |-> envs, evals |-> ev]

is_truthy(value) ==
    CASE value.t = "Nil" -> FALSE
      [] value.t = "Boolean" -> value.b
      [] OTHER -> TRUE

is_equal(left, right) ==
    IF left.t = "Nil" THEN right.t = "Nil" ELSE left = right

\* Result<Value, Error> of the two pure operator functions
Val(value) == [ok |-> TRUE, value |-> value, error |-> NoError]

Fail(error) == [ok |-> FALSE, value |-> NilValue, error |-> error]

\* faulty variant: a division by zero yields a Number
arithmetic_unchecked(left, operator, right) ==
    CASE left.t = "Number" /\ right.t = "Number" ->
           (CASE operator.type = "Minus" ->
                   Val(NumberValue(left.num * right.den - right.num * left.den,
                                   left.den * right.den))
              [] operator.type = "Plus" ->
                   Val(NumberValue(left.num * right.den + right.num * left.den,
                                   left.den * right.den))
              [] operator.type = "Slash" /\ right.num = 0 ->
                   Val(NumberValue(0, 1))
              [] operator.type = "Slash" /\ right.num # 0 ->
                   Val(NumberValue(left.num * right.den, left.den * right.num))
              [] operator.type = "Star" ->
                   Val(NumberValue(left.num * right.num, left.den * right.den))
              [] OTHER ->
                   Fail(RuntimeError(operator, "Operator is not valid for arithmetic")))
      [] left.t = "Str" ->
           IF operator.type = "Plus"
           THEN Val(StrValue(left.s \o ValueToString(right)))
           ELSE Fail(RuntimeError(operator, "Operator is not valid for string concatenation"))
      [] left.t # "Str" /\ ~(left.t = "Number" /\ right.t = "Number") /\ right.t = "Str" ->
           IF operator.type = "Plus"
           THEN Val(StrValue(ValueToString(left) \o right.s))
           ELSE Fail(RuntimeError(operator, "Operator is not valid for string concatenation"))
      [] OTHER ->
           Fail(RuntimeError(operator, "Cannot perform arithmetic on non-numeric values"))

\* faulty variant: `+` concatenates only when the left operand is a String
arithmetic_left_string(left, operator, right) ==
    CASE left.t = "Number" /\ right.t = "Number" ->
           (CASE operator.type = "Minus" ->
                   Val(NumberValue(left.num * right.den - right.num * left.den,
                                   left.den * right.den))
              [] operator.type = "Plus" ->
                   Val(NumberValue(left.num * right.den + right.num * left.den,
                                   left.den * right.den))
              [] operator.type = "Slash" /\ right.num = 0 ->
                   Fail(RuntimeError(operator, "Can't divide by zero"))
              [] operator.type = "Slash" /\ right.num # 0 ->
                   Val(NumberValue(left.num * right.den, left.den * right.num))
              [] operator.type = "Star" ->
                   Val(NumberValue(left.num * right.num, left.den * right.den))
              [] OTHER ->
                   Fail(RuntimeError(operator, "Operator is not valid for arithmetic")))
      [] left.t = "Str" ->
           IF operator.type = "Plus"
           THEN Val(StrValue(left.s \o ValueToString(right)))
           ELSE Fail(RuntimeError(operator, "Operator is not valid for string concatenation"))
      [] OTHER ->
           Fail(RuntimeError(operator, "Cannot perform arithmetic on non-numeric values"))

arithmetic(left, operator, right) ==
    CASE left.t = "Number" /\ right.t = "Number" ->
           (CASE operator.type = "Minus" ->
                   Val(NumberValue(left.num * right.den - right.num * left.den,
                                   left.den * right.den))
              [] operator.type = "Plus" ->
                   Val(NumberValue(left.num * right.den + right.num * left.den,
                                   left.den * right.den))
              [] operator.type = "Slash" /\ right.num = 0 ->
                   Fail(RuntimeError(operator, "Can't divide by zero"))
              [] operator.type = "Slash" /\ right.num # 0 ->
                   Val(NumberValue(left.num * right.den, left.den * right.num))
              [] operator.type = "Star" ->
                   Val(NumberValue(left.num * right.num, left.den * right.den))
              [] OTHER ->
                   Fail(RuntimeError(operator, "Operator is not valid for arithmetic")))
      [] left.t = "Str" ->
           IF operator.type = "Plus"
           THEN Val(StrValue(left.s \o ValueToString(right)))
           ELSE Fail(RuntimeError(operator, "Operator is not valid for string concatenation"))
      [] left.t # "Str" /\ ~(left.t = "Number" /\ right.t = "Number") /\ right.t = "Str" ->
           IF operator.type = "Plus"
           THEN Val(StrValue(ValueToString(left) \o right.s))
           ELSE Fail(RuntimeError(operator, "Operator is not valid for string concatenation"))
      [] OTHER ->
           Fail(RuntimeError(operator, "Cannot perform arithmetic on non-numeric values"))

\* l < r on fractions with positive denominators
NumLess(l, r) == l.num * r.den < r.num * l.den

compare(left, operator, right) ==
    IF left.t = "Number" /\ right.t = "Number"
    THEN CASE operator.type = "Less" -> Val(BooleanValue(NumLess(left, right)))
           [] operator.type = "LessEqual" -> Val(BooleanValue(~NumLess(right, left)))
           [] operator.type = "Greater" -> Val(BooleanValue(NumLess(right, left)))
           [] operator.type = "GreaterEqual" -> Val(BooleanValue(~NumLess(left, right)))
           [] OTHER -> Fail(RuntimeError(operator, "Operator is not valid for comparison"))
    ELSE Fail(RuntimeError(operator, "Cannot perform comparison on non-numeric values"))

RECURSIVE evaluate_expression(_, _, _)

evaluate_assign(envs, e, name, value) ==
    LET r == evaluate_expression(envs, e, value)
    IN  IF ~r.ok THEN r
        ELSE LET a == EnvAssign(r.envs, e, name.lexeme, r.value)
             IN  IF ~a.ok
                 THEN Err(RuntimeError(name, "Undefined variable"), a.envs, r.evals)
                 ELSE Ok(r.value, a.envs, r.evals)

evaluate_binary(envs, e, left, operator, right) ==
    LET l == evaluate_expression(envs, e, left)
    IN  IF ~l.ok THEN l
        ELSE LET r == evaluate_expression(l.envs, e, right)
                 ev == l.evals \o r.evals
             IN  IF ~r.ok THEN Err(r.error, r.envs, ev)
                 ELSE LET v == CASE operator.type \in {"Minus", "Plus", "Slash", "Star"} ->
                                      arithmetic(l.value, operator, r.value)
                                 [] operator.type \in {"Less", "LessEqual", "Greater", "GreaterEqual"} ->
                                      compare(l.value, operator, r.value)
                                 [] operator.type = "EqualEqual" ->
                                      Val(BooleanValue(is_equal(l.value, r.value)))
                                 [] operator.type = "BangEqual" ->
                                      Val(BooleanValue(~is_equal(l.value, r.value)))
                                 [] OTHER ->
                                      Fail(RuntimeError(operator, "Operator is not valid for a binary expression"))
                      IN  IF v.ok THEN Ok(v.value, r.envs, ev)
                          ELSE Err(v.error, r.envs, ev)

evaluate_grouping(envs, e, expression) == evaluate_expression(envs, e, expression)

evaluate_literal(envs, e, value) == Ok(value, envs, <<>>)

\* faulty variant: both operands are evaluated before the operator is looked at
evaluate_logical_eager(envs, e, left, operator, right) ==
    LET l == evaluate_expression(envs, e, left)
    IN  IF ~l.ok THEN l
        ELSE LET is_left_truthy == is_truthy(l.value)
                 r == evaluate_expression(l.envs, e, right)
             IN  IF ~r.ok THEN [r EXCEPT !.evals = l.evals \o @]
                 ELSE CASE operator.type = "Or" /\ is_left_truthy ->
                             Ok(l.value, r.envs, l.evals \o r.evals)
                        [] operator.type = "And" /\ ~is_left_truthy ->
                             Ok(l.value, r.envs, l.evals \o r.evals)
                        [] OTHER -> [r EXCEPT !.evals = l.evals \o @]

evaluate_logical(envs, e, left, operator, right) ==
    LET l == evaluate_expression(envs, e, left)
    IN  IF ~l.ok THEN l
        ELSE LET is_left_truthy == is_truthy(l.value)
             IN  CASE operator.type = "Or" /\ is_left_truthy -> l
                   [] operator.type = "And" /\ ~is_left_truthy -> l
                   [] OTHER ->
                        LET r == evaluate_expression(l.envs, e, right)
                        IN  [r EXCEPT !.evals = l.evals \o @]

evaluate_unary(envs, e, operator, right) ==
    LET r == evaluate_expression(envs, e, right)
    IN  IF ~r.ok THEN r
        ELSE CASE operator.type = "Minus" ->
                    IF r.value.t = "Number"
                    THEN Ok(NumberValue(-r.value.num, r.value.den), r.envs, r.evals)
                    ELSE Err(RuntimeError(operator, "Operator '-' cannot be applied to non-number value"),
                             r.envs, r.evals)
               [] operator.type = "Bang" ->
                    Ok(BooleanValue(~is_truthy(r.value)), r.envs, r.evals)
               [] OTHER ->
                    Err(RuntimeError(operator, "Operator is not valid in a unary expression"),
                        r.envs, r.evals)

evaluate_variable(envs, e, name) ==
    LET g == EnvGet(envs, e, name.lexeme)
    IN  IF g.some THEN Ok(g.value, envs, <<>>)
        ELSE Err(RuntimeError(name, "Undefined variable"), envs, <<>>)

evaluate_expression(envs, e, expr) ==
    LET r == CASE expr.k = "Assign" -> evaluate_assign(envs, e, expr.name, expr.value)
               [] expr.k = "Binary" -> evaluate_binary(envs, e, expr.left, expr.operator, expr.right)
               [] expr.k = "Grouping" -> evaluate_grouping(envs, e, expr.expression)
               [] expr.k = "Literal" -> evaluate_literal(envs, e, expr.value)
               [] expr.k = "Logical" -> evaluate_logical(envs, e, expr.left, expr.operator, expr.right)
               [] expr.k = "Unary" -> evaluate_unary(envs, e, expr.operator, expr.right)
               [] expr.k = "Variable" -> evaluate_variable(envs, e, expr.name)
    IN  [r EXCEPT !.evals = <<expr>> \o @]

(***************************************************************************)
(* Scanner (scanner.rs).  The Peekable<Chars> iterator is the pair of the  *)
(* source and the index i of the character next() returns.  The model's    *)
(* alphabet is ASCII: digits, lower-case letters, blanks and punctuation.  *)
(***************************************************************************)
Digits == {"0", "1", "2", "3", "4", "5", "6", "7", "8", "9"}

Letters == {"a", "b", "c", "d", "e", "f", "g", "h", "i", "j", "k", "l", "m",
            "n", "o", "p", "q", "r", "s", "t", "u", "v", "w", "x", "y", "z"}

is_numeric(c) == c \in Digits

is_alphabetic(c) == c \in Letters

is_alphanumeric(c) == is_alphabetic(c) \/ is_numeric(c)

KEYWORDS == {"And", "Break", "Class", "Continue", "Else", "False", "For", "Fun",
             "If", "Nil", "Or", "Print", "Return", "Super", "This", "True",
             "Var", "While"}

DigitValue(c) == CHOOSE d \in 0..9 : DigitChar[d + 1] = c

RECURSIVE Pow10(_)
Pow10(n) == IF n = 0 THEN 1 ELSE 10 * Pow10(n - 1)

RECURSIVE DigitsValue(_)
DigitsValue(ds) ==
    IF ds = <<>> THEN 0
    ELSE 10 * DigitsValue(SubSeq(ds, 1, Len(ds) - 1)) + DigitValue(ds[Len(ds)])

\* str::parse::<f64> on digits and dots that start with a digit: Ok for at
\* most one dot ("1", "1.", "1.5"), Err for more
ParseF64(n) ==
    LET dots == {i \in DOMAIN n : n[i] = "."}
    IN  IF Cardinality(dots) > 1 THEN [ok |-> FALSE, value |-> NilValue]
        ELSE IF dots = {} THEN [ok |-> TRUE, value |-> Num(DigitsValue(n))]
        ELSE LET d == CHOOSE i \in dots : TRUE
                 whole == SubSeq(n, 1, d - 1)
                 frac == SubSeq(n, d + 1, Len(n))
             IN  [ok |-> TRUE,
                  value |-> NumberValue(DigitsValue(whole) * Pow10(Len(frac)) + DigitsValue(frac),
                                        Pow10(Len(frac)))]

consume_next_if(src, i, line, next, success, failure) ==
    IF i <= Len(src) /\ src[i] = next
    THEN [token |-> TokenSimple(success, line), i |-> i + 1]
    ELSE [token |-> TokenSimple(failure, line), i |-> i]

\* the loop of the line comment: the text up to the newline, which it takes
RECURSIVE line_comment(_, _, _, _)
line_comment(src, i, line, comment) ==
    IF i > Len(src) THEN [comment |-> comment, i |-> i, line |-> line]
    ELSE IF src[i] = "\n" THEN [comment |-> comment, i |-> i + 1, line |-> line + 1]
    ELSE line_comment(src, i + 1, line, Append(comment, src[i]))

RECURSIVE consume_block_comment(_, _, _, _)
consume_block_comment(src, i, line, comment) ==
    IF i > Len(src) THEN [comment |-> comment, i |-> i, line |-> line]
    ELSE LET c == src[i]
         IN  CASE c = "/" ->
                    IF i + 1 <= Len(src) /\ src[i + 1] = "*"
                    THEN LET inner == consume_block_comment(src, i + 2, line, comment \o <<"/", "*">>)
                         IN  consume_block_comment(src, inner.i, inner.line, inner.comment)
                    ELSE consume_block_comment(src, i + 1, line, comment)
               [] c = "*" ->
                    IF i + 1 <= Len(src) /\ src[i + 1] = "/"
                    THEN [comment |-> comment \o <<"*", "/">>, i |-> i + 1, line |-> line]
                    ELSE consume_block_comment(src, i + 1, line, Append(comment, "*"))
               [] OTHER ->
                    consume_block_comment(src, i + 1, IF c = "\n" THEN line + 1 ELSE line,
                                          Append(comment, c))

\* i is at the character after the slash
consume_slash_or_comment(src, i, line) ==
    IF i <= Len(src) /\ src[i] = "/"
    THEN LET r == line_comment(src, i, line, <<"/">>)
         IN  [token |-> TokenWithLexeme("Comment", r.comment, line), i |-> r.i, line |-> r.line]
    ELSE IF i <= Len(src) /\ src[i] = "*"
    THEN LET r == consume_block_comment(src, i + 1, line, <<"/", "*">>)
         IN  [token |-> TokenWithLexeme("Comment", r.comment, line), i |-> r.i, line |-> r.line]
    ELSE [token |-> TokenSimple("Slash", line), i |-> i, line |-> line]

ends_with(s, suffix) ==
    Len(s) >= Len(suffix) /\ SubSeq(s, Len(s) - Len(suffix) + 1, Len(s)) = suffix

\* the loop of consume_string: s is the text taken so far
RECURSIVE string_loop(_, _, _, _)
string_loop(src, i, line, s) ==
    IF i > Len(src) THEN [s |-> s, i |-> i, line |-> line]
    ELSE LET c == src[i]
             s1 == Append(s, c)
             line1 == IF c = "\n" THEN line + 1 ELSE line
         IN  IF c = "\"" /\ (~ends_with(s1, <<"\\">>) \/ ends_with(s1, <<"\\", "\\">>))
             THEN [s |-> s1, i |-> i + 1, line |-> line1]
             ELSE string_loop(src, i + 1, line1, s1)

\* i is at the character after the opening quote
consume_string(src, i, line) ==
    LET r == string_loop(src, i, line, <<"\"">>)
    IN  IF r.i <= Len(src)
        THEN [some |-> TRUE,
              token |-> TokenWithLiteral("Str", r.s, StrValue(SubSeq(r.s, 2, Len(r.s) - 1)), line),
              i |-> r.i, line |-> r.line]
        ELSE [some |-> FALSE, token |-> NoToken, i |-> r.i, line |-> r.line]

RECURSIVE number_loop(_, _, _)
number_loop(src, i, n) ==
    IF i <= Len(src) /\ (is_numeric(src[i]) \/ src[i] = ".")
    THEN number_loop(src, i + 1, Append(n, src[i]))
    ELSE [n |-> n, i |-> i]

\* i is at the character after first_char; ok is FALSE where unwrap panics
consume_number(src, i, first_char, line) ==
    LET r == number_loop(src, i, <<first_char>>)
        f == ParseF64(r.n)
    IN  [ok |-> f.ok, token |-> TokenWithLiteral("Number", r.n, f.value, line), i |-> r.i]

RECURSIVE identifier_loop(_, _, _)
identifier_loop(src, i, s) ==
    IF i <= Len(src) /\ is_alphanumeric(src[i])
    THEN identifier_loop(src, i + 1, Append(s, src[i]))
    ELSE [s |-> s, i |-> i]

consume_identifier_or_keyword(src, i, first_char, line) ==
    LET r == identifier_loop(src, i, <<first_char>>)
        hit == {tt \in KEYWORDS : Lexemes[tt] = r.s}
    IN  [token |-> IF hit # {} THEN TokenSimple(CHOOSE tt \in hit : TRUE, line)
                   ELSE TokenWithLexeme("Identifier", r.s, line),
         i |-> r.i]

SingleChar ==
    [c \in {"(", ")", "{", "}", ",", ".", "-", "+", ";", "*"} |->
        CASE c = "(" -> "LeftParen" [] c = ")" -> "RightParen"
          [] c = "{" -> "LeftBrace" [] c = "}" -> "RightBrace"
          [] c = "," -> "Comma" [] c = "." -> "Dot" [] c = "-" -> "Minus"
          [] c = "+" -> "Plus" [] c = ";" -> "Semicolon" [] c = "*" -> "Star"]

\* the while loop of scan; [ok, tokens], ok FALSE where the scan panics
RECURSIVE scan_loop(_, _, _, _)
scan_loop(src, i, line, toks) ==
    IF i > Len(src) THEN [ok |-> TRUE, tokens |-> Append(toks, TokenSimple("Eof", line))]
    ELSE LET c == src[i]
         IN  CASE c \in DOMAIN SingleChar ->
                    scan_loop(src, i + 1, line, Append(toks, TokenSimple(SingleChar[c], line)))
               [] c = "/" ->
                    LET r == consume_slash_or_comment(src, i + 1, line)
                    IN  scan_loop(src, r.i, r.line, Append(toks, r.token))
               [] c = "!" ->
                    LET r == consume_next_if(src, i + 1, line, "=", "BangEqual", "Bang")
                    IN  scan_loop(src, r.i, line, Append(toks, r.token))
               [] c = "=" ->
                    LET r == consume_next_if(src, i + 1, line, "=", "EqualEqual", "Equal")
                    IN  scan_loop(src, r.i, line, Append(toks, r.token))
               [] c = ">" ->
                    LET r == consume_next_if(src, i + 1, line, "=", "GreaterEqual", "Greater")
                    IN  scan_loop(src, r.i, line, Append(toks, r.token))
               [] c = "<" ->
                    LET r == consume_next_if(src, i + 1, line, "=", "LessEqual", "Less")
                    IN  scan_loop(src, r.i, line, Append(toks, r.token))
               [] c = "\"" ->
                    LET r == consume_string(src, i + 1, line)
                    IN  scan_loop(src, r.i, r.line,
                                  IF r.some THEN Append(toks, r.token) ELSE toks)
               [] is_numeric(c) ->
                    LET r == consume_number(src, i + 1, c, line)
                    IN  IF r.ok THEN scan_loop(src, r.i, line, Append(toks, r.token))
                        ELSE [ok |-> FALSE, tokens |-> toks]
               [] is_alphabetic(c) ->
                    LET r == consume_identifier_or_keyword(src, i + 1, c, line)
                    IN  scan_loop(src, r.i, line, Append(toks, r.token))
               [] c = "\n" -> scan_loop(src, i + 1, line + 1, toks)
               [] OTHER -> scan_loop(src, i + 1, line, toks)

scan(src) == scan_loop(src, 1, 1, <<>>)

(***************************************************************************)
(* Parser (parser.rs).  The Peekable iterator over the tokens is the pair  *)
(* of the token sequence and the index p of the token next() returns; a    *)
(* parsing function returns [ok, node, error, pos], pos being the iterator *)
(* it leaves behind.                                                       *)
(***************************************************************************)
EXPECT_PRIMARY == <<"Number", "Str", "True", "False", "Nil", "LeftParen", "Identifier">>

Range(s) == {s[i] : i \in DOMAIN s}

ParseError(expected, found) == [expected |-> expected, found |-> found]

Parsed(node, p) == [ok |-> TRUE, node |-> node, error |-> ParseError(<<>>, NoToken), pos |-> p]

Failed(error, p) == [ok |-> FALSE, node |-> None, error |-> error, pos |-> p]

next_is(toks, p, matches) == p <= Len(toks) /\ toks[p].type \in Range(matches)

maybe_consume(toks, p, matches) ==
    IF next_is(toks, p, matches)
    THEN [some |-> TRUE, token |-> toks[p], pos |-> p + 1]
    ELSE [some |-> FALSE, token |-> NoToken, pos |-> p]

is_one_of(token, matches) == token.type \in Range(matches)

consume(toks, p, matches) ==
    IF p <= Len(toks)
    THEN IF is_one_of(toks[p], matches)
         THEN Parsed(toks[p], p + 1)
         ELSE Failed(ParseError(matches, toks[p]), p + 1)
    ELSE Failed(ParseError(matches, NoToken), p)

RECURSIVE parse_expression(_, _)
RECURSIVE parse_assignment(_, _)
RECURSIVE parse_binary_loop(_, _, _, _, _)
RECURSIVE parse_operand(_, _, _)
RECURSIVE parse_unary(_, _)
RECURSIVE statement(_, _)
RECURSIVE declaration(_, _)
RECURSIVE block_loop(_, _, _)

parse_primary(toks, p) ==
    IF p > Len(toks) THEN Failed(ParseError(EXPECT_PRIMARY, NoToken), p)
    ELSE LET token == toks[p]
         IN  IF token.type \in Range(EXPECT_PRIMARY)
             THEN CASE token.type = "LeftParen" ->
                         LET Group(expr) ==
                                 IF ~expr.ok THEN expr
                                 ELSE LET c == consume(toks, expr.pos, <<"RightParen">>)
                                      IN  IF ~c.ok THEN c
                                          ELSE Parsed(ExprGrouping(expr.node), c.pos)
                         IN  Group(parse_expression(toks, p + 1))
                    [] token.type = "Identifier" -> Parsed(ExprVariable(token), p + 1)
                    [] OTHER ->
                         IF token.literal # NoLiteral
                         THEN Parsed(ExprLiteral(token.literal), p + 1)
                         ELSE Failed(ParseError(EXPECT_PRIMARY, token), p + 1)
             ELSE Failed(ParseError(EXPECT_PRIMARY, token), p + 1)

parse_unary(toks, p) ==
    LET m == maybe_consume(toks, p, <<"Bang", "Minus">>)
    IN  IF m.some
        THEN LET Unary(right) ==
                     IF ~right.ok THEN right
                     ELSE Parsed(ExprUnary(m.token, right.node), right.pos)
             IN  Unary(parse_unary(toks, m.pos))
        ELSE parse_primary(toks, p)

\* faulty variant: operators of one level group to the right
parse_binary_loop_right(toks, p, matches, operand, expr) ==
    LET m == maybe_consume(toks, p, matches)
    IN  IF m.some
        THEN LET Rest(rest) ==
                     IF ~rest.ok THEN rest
                     ELSE Parsed(ExprBinary(expr, m.token, rest.node), rest.pos)
                 Binary(right) ==
                     IF ~right.ok THEN right
                     ELSE Rest(parse_binary_loop(toks, right.pos, matches, operand, right.node))
             IN  Binary(parse_operand(toks, m.pos, operand))
        ELSE Parsed(expr, p)

\* the while loop of parse_binary; expr is the tree built so far
parse_binary_loop(toks, p, matches, operand, expr) ==
    LET m == maybe_consume(toks, p, matches)
    IN  IF m.some
        THEN LET Binary(right) ==
                     IF ~right.ok THEN right
                     ELSE parse_binary_loop(toks, right.pos, matches, operand,
                                            ExprBinary(expr, m.token, right.node))
             IN  Binary(parse_operand(toks, m.pos, operand))
        ELSE Parsed(expr, p)

parse_binary(toks, p, matches, operand) ==
    LET First(expr) ==
            IF ~expr.ok THEN expr
            ELSE parse_binary_loop(toks, expr.pos, matches, operand, expr.node)
    IN  First(parse_operand(toks, p, operand))

parse_multiplication(toks, p) == parse_binary(toks, p, <<"Slash", "Star">>, "parse_unary")

parse_addition(toks, p) == parse_binary(toks, p, <<"Minus", "Plus">>, "parse_multiplication")

parse_comparison(toks, p) ==
    parse_binary(toks, p, <<"Greater", "GreaterEqual", "Less", "LessEqual">>, "parse_addition")

parse_equality(toks, p) ==
    parse_binary(toks, p, <<"BangEqual", "EqualEqual">>, "parse_comparison")

\* the call through the parse_operand function pointer of parse_binary
parse_operand(toks, p, operand) ==
    CASE operand = "parse_comparison" -> parse_comparison(toks, p)
      [] operand = "parse_addition" -> parse_addition(toks, p)
      [] operand = "parse_multiplication" -> parse_multiplication(toks, p)
      [] operand = "parse_unary" -> parse_unary(toks, p)

\* faulty variant: a target that is no variable is dropped without an error
parse_assignment_lenient(toks, p) ==
    LET Target(expr) ==
            IF ~expr.ok THEN expr
            ELSE LET equal == maybe_consume(toks, expr.pos, <<"Equal">>)
                     Assign(value) ==
                         IF ~value.ok THEN value
                         ELSE IF expr.node.k = "Variable"
                              THEN Parsed(ExprAssign(expr.node.name, value.node), value.pos)
                              ELSE Parsed(value.node, value.pos)
                 IN  IF equal.some
                     THEN Assign(parse_assignment(toks, equal.pos))
                     ELSE Parsed(expr.node, expr.pos)
    IN  Target(parse_equality(toks, p))

parse_assignment(toks, p) ==
    LET Target(expr) ==
            IF ~expr.ok THEN expr
            ELSE LET equal == maybe_consume(toks, expr.pos, <<"Equal">>)
                     Assign(value) ==
                         IF ~value.ok THEN value
                         ELSE IF expr.node.k = "Variable"
                              THEN Parsed(ExprAssign(expr.node.name, value.node), value.pos)
                              ELSE Failed(ParseError(<<"Identifier">>, equal.token), value.pos)
                 IN  IF equal.some
                     THEN Assign(parse_assignment(toks, equal.pos))
                     ELSE Parsed(expr.node, expr.pos)
    IN  Target(parse_equality(toks, p))

parse_expression(toks, p) == parse_assignment(toks, p)

expression_statement(toks, p) ==
    LET Statement(expr) ==
            IF ~expr.ok THEN expr
            ELSE LET c == consume(toks, expr.pos, <<"Semicolon">>)
                 IN  IF ~c.ok THEN c ELSE Parsed(StmtExpression(expr.node), c.pos)
    IN  Statement(parse_expression(toks, p))

\* the while loop of block_statement; statements are the ones parsed so far
block_loop(toks, p, statements) ==
    IF ~next_is(toks, p, <<"RightBrace">>)
    THEN LET Push(d) ==
                 IF ~d.ok THEN d
                 ELSE block_loop(toks, d.pos, Append(statements, d.node))
         IN  Push(declaration(toks, p))
    ELSE Parsed(statements, consume(toks, p, <<"RightBrace">>).pos)

\* returns the statements of the block; p is at the left brace
block_statement(toks, p) == block_loop(toks, p + 1, <<>>)

print_statement(toks, p) ==
    LET Statement(expr) ==
            IF ~expr.ok THEN expr
            ELSE LET c == consume(toks, expr.pos, <<"Semicolon">>)
                 IN  IF ~c.ok THEN c ELSE Parsed(StmtPrint(expr.node), c.pos)
    IN  Statement(parse_expression(toks, p + 1))

if_statement(toks, p) ==
    LET lp == consume(toks, p + 1, <<"LeftParen">>)
    IN  IF ~lp.ok THEN lp
        ELSE LET Else(expr, then_branch, else_branch) ==
                     IF ~else_branch.ok THEN else_branch
                     ELSE Parsed(StmtIf(expr.node, then_branch.node, else_branch.node),
                                 else_branch.pos)
                 Then(expr, then_branch) ==
                     IF ~then_branch.ok THEN then_branch
                     ELSE LET else_ == maybe_consume(toks, then_branch.pos, <<"Else">>)
                          IN  IF else_.some
                              THEN Else(expr, then_branch, statement(toks, else_.pos))
                              ELSE Parsed(StmtIf(expr.node, then_branch.node, None),
                                          then_branch.pos)
                 Condition(expr) ==
                     IF ~expr.ok THEN expr
                     ELSE LET rp == consume(toks, expr.pos, <<"RightParen">>)
                          IN  IF ~rp.ok THEN rp
                              ELSE Then(expr, statement(toks, rp.pos))
             IN  Condition(parse_expression(toks, lp.pos))

statement(toks, p) ==
    IF next_is(toks, p, <<"If">>) THEN if_statement(toks, p)
    ELSE IF next_is(toks, p, <<"Print">>) THEN print_statement(toks, p)
    ELSE IF next_is(toks, p, <<"LeftBrace">>)
         THEN LET Block(b) == IF ~b.ok THEN b ELSE Parsed(StmtBlock(b.node), b.pos)
              IN  Block(block_statement(toks, p))
    ELSE expression_statement(toks, p)

var_declaration(toks, p) ==
    LET v == consume(toks, p, <<"Var">>)
    IN  IF ~v.ok THEN v
        ELSE LET name == consume(toks, v.pos, <<"Identifier">>)
             IN  IF ~name.ok THEN name
                 ELSE LET equal == maybe_consume(toks, name.pos, <<"Equal">>)
                          Var(initializer) ==
                              IF ~initializer.ok THEN initializer
                              ELSE LET c == consume(toks, initializer.pos, <<"Semicolon">>)
                                   IN  IF ~c.ok THEN c
                                       ELSE Parsed(StmtVar(name.node, initializer.node), c.pos)
                      IN  Var(IF equal.some THEN parse_expression(toks, equal.pos)
                              ELSE Parsed(None, equal.pos))

declaration(toks, p) ==
    IF next_is(toks, p, <<"Var">>) THEN var_declaration(toks, p)
    ELSE statement(toks, p)

\* returns the iterator after the tokens it discards
RECURSIVE synchronize(_, _)
synchronize(toks, p) ==
    IF p > Len(toks) THEN p
    ELSE IF toks[p].type = "Semicolon" \/ toks[p].type = "Eof" THEN p + 1
    ELSE IF next_is(toks, p + 1, <<"Class", "Fun", "Var", "For", "If", "While",
                                   "Print", "Return", "Eof">>)
         THEN p + 1
    ELSE synchronize(toks, p + 1)

\* the loop of parse: [statements, errors, pos] when it breaks
RECURSIVE parse_loop(_, _, _, _)
parse_loop(toks, p, statements, errs) ==
    IF next_is(toks, p, <<"Eof">>)
    THEN [statements |-> statements, errors |-> errs, pos |-> p + 1]
    ELSE IF p > Len(toks)
    THEN [statements |-> statements, errors |-> errs, pos |-> p]
    ELSE LET Push(d) ==
                 IF d.ok THEN parse_loop(toks, d.pos, Append(statements, d.node), errs)
                 ELSE parse_loop(toks, synchronize(toks, d.pos), statements,
                                 Append(errs, d.error))
         IN  Push(declaration(toks, p))

\* Ok(statements) when no error was recorded, else Err(errors)
parse(toks) ==
    LET Result(r) ==
            [ok |-> r.errors = <<>>, statements |-> r.statements, errors |-> r.errors,
             pos |-> r.pos]
    IN  Result(parse_loop(toks, 1, <<>>, <<>>))

(***************************************************************************)
(* Statement execution (interpreter.rs).  A frame is one active call:      *)
(*   "interpret" and "block": the iterator over `stmts`, `i` the index of  *)
(*        the statement execute_stmt is called on next;                    *)
(*   "stmt": execute_stmt(state, stmt) is about to be called;              *)
(*   "for": the loop of execute_for_stmt, about to evaluate the condition  *)
(*        (at = "cond") or to run the increment (at = "incr").             *)
(* `env` is the index of the frame's state.environment.                    *)
(***************************************************************************)
Top == frames[Len(frames)]

Pop(s) == SubSeq(s, 1, Len(s) - 1)

HasCurrent ==
    /\ pc = "exec"
    /\ \/ Top.k = "stmt"
       \/ Top.k \in {"interpret", "block"} /\ Top.i <= Len(Top.stmts)

Current == IF Top.k = "stmt" THEN Top.stmt ELSE Top.stmts[Top.i]

CurEnv == Top.env

\* the call stack once the current statement has been taken
Consumed ==
    IF Top.k = "stmt" THEN Pop(frames)
    ELSE [frames EXCEPT ![Len(frames)].i = @ + 1]

StmtFrame(stmt, env) == [k |-> "stmt", stmt |-> stmt, env |-> env]

NoResult == [status |-> "none", errors |-> <<>>]

\* faulty variant: the Err of a statement is dropped and the next statement runs
RaiseSwallowed(r) ==
    /\ frames' = Consumed
    /\ scopes' = r.envs
    /\ evals' = r.evals
    /\ UNCHANGED <<pc, call, source, tokens, pos, stmts, errors, raised, output, result>>

\* the statement returned Err: the error starts to propagate
Raise(r) ==
    /\ pc' = "unwind"
    /\ raised' = r.error
    /\ scopes' = r.envs
    /\ evals' = r.evals
    /\ UNCHANGED <<call, source, tokens, pos, stmts, errors, frames, output, result>>

Interpret(statements) ==
    /\ pc = "idle"
    /\ pc' = "exec"
    /\ call' = "interpret"
    /\ stmts' = statements
    /\ frames' = <<[k |-> "interpret", stmts |-> statements, i |-> 1, env |-> 1]>>
    /\ UNCHANGED <<source, tokens, pos, errors, scopes, raised, output, result, evals>>

InterpretReturn ==
    /\ pc = "exec"
    /\ Top.k = "interpret"
    /\ Top.i > Len(Top.stmts)
    /\ pc' = "done"
    /\ frames' = <<>>
    /\ result' = [status |-> "ok", errors |-> <<>>]
    /\ UNCHANGED <<call, source, tokens, pos, stmts, errors, scopes, raised, output, evals>>

\* faulty variant: the statements of the block run in the state of the caller
execute_block_shared ==
    /\ HasCurrent
    /\ Current.k = "Block"
    /\ scopes' = Append(scopes, NewEnclosing(CurEnv))
    /\ frames' = Append(Consumed, [k |-> "block", stmts |-> Current.statements,
                                   i |-> 1, env |-> CurEnv])
    /\ evals' = <<>>
    /\ UNCHANGED <<pc, call, source, tokens, pos, stmts, errors, raised, output, result>>

execute_block ==
    /\ HasCurrent
    /\ Current.k = "Block"
    /\ scopes' = Append(scopes, NewEnclosing(CurEnv))
    /\ frames' = Append(Consumed, [k |-> "block", stmts |-> Current.statements,
                                   i |-> 1, env |-> Len(scopes) + 1])
    /\ evals' = <<>>
    /\ UNCHANGED <<pc, call, source, tokens, pos, stmts, errors, raised, output, result>>

\* the block's loop is over: block_state and its environment are dropped
BlockReturn ==
    /\ pc = "exec"
    /\ Top.k = "block"
    /\ Top.i > Len(Top.stmts)
    /\ frames' = Pop(frames)
    /\ scopes' = Pop(scopes)
    /\ UNCHANGED <<pc, call, source, tokens, pos, stmts, errors, raised, output, result, evals>>

execute_expression_stmt ==
    /\ HasCurrent
    /\ Current.k = "Expression"
    /\ LET r == evaluate_expression(scopes, CurEnv, Current.expression)
       IN  IF ~r.ok THEN Raise(r)
           ELSE /\ scopes' = r.envs
                /\ evals' = r.evals
                /\ frames' = Consumed
                /\ UNCHANGED <<pc, call, source, tokens, pos, stmts, errors, raised, output, result>>

execute_print_stmt ==
    /\ HasCurrent
    /\ Current.k = "Print"
    /\ LET r == evaluate_expression(scopes, CurEnv, Current.expression)
       IN  IF ~r.ok THEN Raise(r)
           ELSE /\ scopes' = r.envs
                /\ evals' = r.evals
                /\ output' = Append(output, ValueToString(r.value))
                /\ frames' = Consumed
                /\ UNCHANGED <<pc, call, source, tokens, pos, stmts, errors, raised, result>>

execute_var_stmt ==
    /\ HasCurrent
    /\ Current.k = "Var"
    /\ LET r == IF Current.initializer # None
                THEN evaluate_expression(scopes, CurEnv, Current.initializer)
                ELSE Ok(NilValue, scopes, <<>>)
       IN  IF ~r.ok THEN Raise(r)
           ELSE /\ scopes' = EnvDefine(r.envs, CurEnv, Current.name.lexeme, r.value)
                /\ evals' = r.evals
                /\ frames' = Consumed
                /\ UNCHANGED <<pc, call, source, tokens, pos, stmts, errors, raised, output, result>>

execute_if_stmt ==
    /\ HasCurrent
    /\ Current.k = "If"
    /\ LET r == evaluate_expression(scopes, CurEnv, Current.expression)
       IN  IF ~r.ok THEN Raise(r)
           ELSE /\ scopes' = r.envs
                /\ evals' = r.evals
                /\ frames' = IF is_truthy(r.value)
                             THEN Append(Consumed, StmtFrame(Current.then_branch, CurEnv))
                             ELSE IF Current.else_branch # None
                                  THEN Append(Consumed, StmtFrame(Current.else_branch, CurEnv))
                                  ELSE Consumed
                /\ UNCHANGED <<pc, call, source, tokens, pos, stmts, errors, raised, output, result>>

\* entry of execute_for_stmt: the initializer runs once, then the loop starts
\* faulty variant: the loop runs in an Environment of its own
execute_for_stmt_scoped ==
    /\ HasCurrent
    /\ Current.k = "For"
    /\ scopes' = Append(scopes, NewEnclosing(CurEnv))
    /\ LET loop == [k |-> "for", stmt |-> Current, at |-> "cond", env |-> Len(scopes) + 1]
       IN  frames' = IF Current.initializer # None
                     THEN Consumed \o <<loop, StmtFrame(Current.initializer, Len(scopes) + 1)>>
                     ELSE Append(Consumed, loop)
    /\ evals' = <<>>
    /\ UNCHANGED <<pc, call, source, tokens, pos, stmts, errors, raised, output, result>>

execute_for_stmt ==
    /\ HasCurrent
    /\ Current.k = "For"
    /\ LET loop == [k |-> "for", stmt |-> Current, at |-> "cond", env |-> CurEnv]
       IN  frames' = IF Current.initializer # None
                     THEN Consumed \o <<loop, StmtFrame(Current.initializer, CurEnv)>>
                     ELSE Append(Consumed, loop)
    /\ evals' = <<>>
    /\ UNCHANGED <<pc, call, source, tokens, pos, stmts, errors, scopes, raised, output, result>>

\* faulty variant: a falsy condition lets the body run once more before the
\* loop ends
ForConditionLate ==
    /\ pc = "exec"
    /\ Top.k = "for"
    /\ Top.at = "cond"
    /\ LET r == evaluate_expression(scopes, CurEnv, Top.stmt.condition)
       IN  IF ~r.ok THEN Raise(r)
           ELSE /\ scopes' = r.envs
                /\ evals' = r.evals
                /\ frames' = IF is_truthy(r.value)
                             THEN Pop(frames) \o <<[Top EXCEPT !.at = "incr"],
                                                   StmtFrame(Top.stmt.body, CurEnv)>>
                             ELSE Append(Pop(frames), StmtFrame(Top.stmt.body, CurEnv))
                /\ UNCHANGED <<pc, call, source, tokens, pos, stmts, errors, raised, output, result>>

\* top of the loop: the condition decides between the body and the break
ForCondition ==
    /\ pc = "exec"
    /\ Top.k = "for"
    /\ Top.at = "cond"
    /\ LET r == evaluate_expression(scopes, CurEnv, Top.stmt.condition)
       IN  IF ~r.ok THEN Raise(r)
           ELSE /\ scopes' = r.envs
                /\ evals' = r.evals
                /\ frames' = IF is_truthy(r.value)
                             THEN Pop(frames) \o <<[Top EXCEPT !.at = "incr"],
                                                   StmtFrame(Top.stmt.body, CurEnv)>>
                             ELSE Pop(frames)
                /\ UNCHANGED <<pc, call, source, tokens, pos, stmts, errors, raised, output, result>>

\* the body returned Ok: the increment runs, then the loop repeats
ForIncrement ==
    /\ pc = "exec"
    /\ Top.k = "for"
    /\ Top.at = "incr"
    /\ frames' = IF Top.stmt.increment # None
                 THEN Pop(frames) \o <<[Top EXCEPT !.at = "cond"],
                                       StmtFrame(Top.stmt.increment, CurEnv)>>
                 ELSE Pop(frames) \o <<[Top EXCEPT !.at = "cond"]>>
    /\ UNCHANGED <<pc, call, source, tokens, pos, stmts, errors, scopes, raised, output, result, evals>>

\* faulty variant: the environment of a block that returns Err stays alive
PropagateLeak ==
    /\ pc = "unwind"
    /\ frames # <<>>
    /\ frames' = Pop(frames)
    /\ scopes' = scopes
    /\ IF Len(frames) = 1
       THEN /\ pc' = "done"
            /\ result' = [status |-> "err", errors |-> <<raised>>]
       ELSE UNCHANGED <<pc, result>>
    /\ UNCHANGED <<call, source, tokens, pos, stmts, errors, raised, output, evals>>

\* an Err returns through one active call; a block drops its environment.
\* When it leaves interpret, interpret (and run, as a one-element list)
\* returns it.
Propagate ==
    /\ pc = "unwind"
    /\ frames # <<>>
    /\ frames' = Pop(frames)
    /\ scopes' = IF Top.k = "block" THEN Pop(scopes) ELSE scopes
    /\ IF Len(frames) = 1
       THEN /\ pc' = "done"
            /\ result' = [status |-> "err", errors |-> <<raised>>]
       ELSE UNCHANGED <<pc, result>>
    /\ UNCHANGED <<call, source, tokens, pos, stmts, errors, raised, output, evals>>

(***************************************************************************)
(* The entry points parse (parser.rs) and run (lib.rs)                     *)
(***************************************************************************)
Parse(toks) ==
    /\ pc = "idle"
    /\ LET Return(r) ==
               /\ pos' = r.pos
               /\ stmts' = r.statements
               /\ errors' = r.errors
               /\ result' = IF r.ok THEN [status |-> "ok", errors |-> <<>>]
                            ELSE [status |-> "err", errors |-> r.errors]
       IN  Return(parse(toks))
    /\ pc' = "done"
    /\ call' = "parse"
    /\ tokens' = toks
    /\ UNCHANGED <<source, scopes, frames, raised, output, evals>>

\* faulty variant: the statements that parsed are interpreted although
\* the parser recorded errors
RunDespiteErrors(src) ==
    /\ pc = "idle"
    /\ call' = "run"
    /\ source' = src
    /\ LET Parsing(r) ==
               /\ pos' = r.pos
               /\ stmts' = r.statements
               /\ errors' = r.errors
               /\ pc' = "exec"
               /\ frames' = <<[k |-> "interpret", stmts |-> r.statements,
                               i |-> 1, env |-> 1]>>
               /\ UNCHANGED result
           Scanning(s) ==
               IF ~s.ok
               THEN /\ pc' = "done"
                    /\ result' = [status |-> "panic", errors |-> <<>>]
                    /\ UNCHANGED <<tokens, pos, stmts, errors, frames>>
               ELSE /\ tokens' = s.tokens
                    /\ Parsing(parse(s.tokens))
       IN  Scanning(scan(src))
    /\ UNCHANGED <<scopes, raised, output, evals>>

\* scan, then parse, then interpret; each stage runs only if the one
\* before it returned Ok.  A panic of the scanner ends the call.
Run(src) ==
    /\ pc = "idle"
    /\ call' = "run"
    /\ source' = src
    /\ LET Parsing(r) ==
               /\ pos' = r.pos
               /\ stmts' = r.statements
               /\ errors' = r.errors
               /\ IF r.ok
                  THEN /\ pc' = "exec"
                       /\ frames' = <<[k |-> "interpret", stmts |-> r.statements,
                                       i |-> 1, env |-> 1]>>
                       /\ UNCHANGED result
                  ELSE /\ pc' = "done"
                       /\ result' = [status |-> "err", errors |-> r.errors]
                       /\ UNCHANGED frames
           Scanning(s) ==
               IF ~s.ok
               THEN /\ pc' = "done"
                    /\ result' = [status |-> "panic", errors |-> <<>>]
                    /\ UNCHANGED <<tokens, pos, stmts, errors, frames>>
               ELSE /\ tokens' = s.tokens
                    /\ Parsing(parse(s.tokens))
       IN  Scanning(scan(src))
    /\ UNCHANGED <<scopes, raised, output, evals>>

\* faulty variant: every line of the REPL runs in an Environment of its own
ReadLineFresh ==
    /\ call = "run"
    /\ pc = "done"
    /\ result.status # "panic"
    /\ pc' = "idle"
    /\ call' = "none"
    /\ source' = <<>>
    /\ tokens' = <<>>
    /\ pos' = 1
    /\ stmts' = <<>>
    /\ errors' = <<>>
    /\ frames' = <<>>
    /\ raised' = NoError
    /\ output' = <<>>
    /\ result' = NoResult
    /\ evals' = <<>>
    /\ scopes' = <<NewEnclosing(0)>>

\* the REPL of main: run has returned Ok or Err, the errors are written to
\* stderr, and the loop waits for the next line; of the call that ended only
\* the Environment that main owns is kept. A call that panicked has ended
\* the process.
ReadLine ==
    /\ call = "run"
    /\ pc = "done"
    /\ result.status # "panic"
    /\ pc' = "idle"
    /\ call' = "none"
    /\ source' = <<>>
    /\ tokens' = <<>>
    /\ pos' = 1
    /\ stmts' = <<>>
    /\ errors' = <<>>
    /\ frames' = <<>>
    /\ raised' = NoError
    /\ output' = <<>>
    /\ result' = NoResult
    /\ evals' = <<>>
    /\ UNCHANGED scopes

(***************************************************************************)
(* Bounded inputs                                                          *)
(***************************************************************************)
MaxNodes == 3

X == <<"x">>

Y == <<"y">>

Names == {X, Y}

Ident(n) == TokenWithLexeme("Identifier", n, 1)

Lit(v) == ExprLiteral(v)

Op(tt) == TokenSimple(tt, 1)

\* the global environments the caller may own when the call starts
GlobalEnvs == UNION {[D -> {Num(1)}] : D \in SUBSET Names}

Leaves ==
    {StmtVar(Ident(X), None), StmtVar(Ident(X), Lit(Num(2))),
     StmtExpression(ExprAssign(Ident(X), Lit(Num(3)))),
     StmtPrint(ExprVariable(Ident(X))),
     StmtExpression(ExprAssign(Ident(Y), Lit(Num(3))))}

\* the statement sequences of exactly n statements, blocks counted with
\* the statements in them
RECURSIVE Forests(_)
Forests(n) ==
    IF n = 0 THEN {<<>>}
    ELSE UNION {{<<t>> \o f : t \in (IF k = 1 THEN Leaves \cup {StmtBlock(<<>>)}
                                     ELSE {StmtBlock(b) : b \in Forests(k - 1)}),
                              f \in Forests(n - k)} : k \in 1..n}

SizedPrograms == UNION {Forests(n) : n \in 0..MaxNodes}

\* var x = 1; { var x = 2; print x; } print x;
ShadowProgram ==
    <<StmtVar(Ident(X), Lit(Num(1))),
      StmtBlock(<<StmtVar(Ident(X), Lit(Num(2))), StmtPrint(ExprVariable(Ident(X)))>>),
      StmtPrint(ExprVariable(Ident(X)))>>

\* blocks three deep that declare and assign at different depths
NestedPrograms ==
    {<<StmtBlock(<<a, StmtBlock(<<b, StmtBlock(<<c>>), StmtPrint(ExprVariable(Ident(X)))>>),
                   StmtPrint(ExprVariable(Ident(X)))>>),
       StmtPrint(ExprVariable(Ident(X)))>> :
        a \in {StmtVar(Ident(X), Lit(Num(2))), StmtVar(Ident(Y), None)},
        b \in {StmtVar(Ident(X), None), StmtVar(Ident(Y), Lit(Num(2)))},
        c \in Leaves}

DivideByZero == ExprBinary(Lit(Num(1)), Op("Slash"), Lit(Num(0)))

LogicalLefts ==
    {Lit(NilValue), Lit(TrueValue), Lit(FalseValue), Lit(Num(0)), Lit(StrValue(<<>>)),
     ExprVariable(Ident(X)), ExprAssign(Ident(X), Lit(FalseValue))}

LogicalRights ==
    {Lit(Num(2)), ExprAssign(Ident(Y), Lit(Num(3))), DivideByZero, ExprVariable(Ident(Y))}

Logicals == {ExprLogical(l, Op(o), r) : l \in LogicalLefts, o \in {"And", "Or"}, r \in LogicalRights}

LogicalPrograms ==
    {<<StmtPrint(e)>> : e \in Logicals}
    \cup {<<StmtExpression(ExprLogical(e, Op(o), ExprAssign(Ident(X), Lit(Num(2)))))>> :
            e \in Logicals, o \in {"And", "Or"}}

IfPrograms ==
    {<<StmtIf(c, t, e), StmtPrint(ExprVariable(Ident(X)))>> :
        c \in {Lit(TrueValue), Lit(NilValue), ExprVariable(Ident(X))},
        t \in {StmtPrint(Lit(Num(1))), StmtBlock(<<StmtVar(Ident(X), Lit(Num(2)))>>)},
        e \in {None, StmtExpression(ExprAssign(Ident(X), Lit(Num(3))))}}

I == <<"i">>

\* for (var i = 0; i < 3; i = i + 1) print i;
CountingLoop ==
    StmtFor(StmtVar(Ident(I), Lit(Num(0))),
            ExprBinary(ExprVariable(Ident(I)), Op("Less"), Lit(Num(3))),
            StmtExpression(ExprAssign(Ident(I),
                ExprBinary(ExprVariable(Ident(I)), Op("Plus"), Lit(Num(1))))),
            StmtPrint(ExprVariable(Ident(I))))

\* loops that fail in the initializer, the condition, the body and the
\* increment, each followed by a statement that must not run
FailingLoops ==
    {<<StmtFor(StmtExpression(DivideByZero), Lit(TrueValue), None, StmtPrint(Lit(Num(1)))),
       StmtPrint(Lit(Num(2)))>>,
     <<StmtFor(None, DivideByZero, None, StmtPrint(Lit(Num(1)))),
       StmtPrint(Lit(Num(2)))>>,
     <<StmtFor(None, Lit(TrueValue), None, StmtPrint(DivideByZero)),
       StmtPrint(Lit(Num(2)))>>,
     <<StmtFor(None, Lit(TrueValue), StmtExpression(DivideByZero), StmtPrint(Lit(Num(1)))),
       StmtPrint(Lit(Num(2)))>>}

\* the operands of the arithmetic operators: every kind of value, and
\* Numbers whose sums, products and quotients are exact
OperandValues ==
    {NilValue, TrueValue, FalseValue, Num(0), Num(1), Num(2), NumberValue(1, 2), Num(-2),
     StrValue(<<>>), StrValue(<<"x">>)}

ArithmeticOperators == {"Plus", "Minus", "Star", "Slash"}

\* var x = l op r;
ArithmeticPrograms ==
    {<<StmtVar(Ident(X), ExprBinary(Lit(l), Op(o), Lit(r)))>> :
        l \in OperandValues, r \in OperandValues, o \in ArithmeticOperators}

\* for (var x = 0; x < 2; x = x + 1) print x;
ScopeLoop ==
    StmtFor(StmtVar(Ident(X), Lit(Num(0))),
            ExprBinary(ExprVariable(Ident(X)), Op("Less"), Lit(Num(2))),
            StmtExpression(ExprAssign(Ident(X),
                ExprBinary(ExprVariable(Ident(X)), Op("Plus"), Lit(Num(1))))),
            StmtPrint(ExprVariable(Ident(X))))

\* var y = x; for (...) print x; print x;
GlobalLoopProgram ==
    <<StmtVar(Ident(Y), ExprVariable(Ident(X))), ScopeLoop, StmtPrint(ExprVariable(Ident(X)))>>

\* { for (...) print x; print x; }
BlockLoopProgram ==
    <<StmtBlock(<<ScopeLoop, StmtPrint(ExprVariable(Ident(X)))>>)>>

ForPrograms ==
    FailingLoops \cup {GlobalLoopProgram, BlockLoopProgram} \cup
    {<<CountingLoop>>,
     <<StmtFor(None, ExprVariable(Ident(X)), None,
               StmtExpression(ExprAssign(Ident(X), Lit(NilValue))))>>,
     <<StmtFor(None, Lit(TrueValue), None,
               StmtBlock(<<StmtVar(Ident(X), Lit(Num(2))), StmtExpression(DivideByZero)>>))>>}

Programs ==
    SizedPrograms \cup {ShadowProgram} \cup NestedPrograms \cup LogicalPrograms
    \cup IfPrograms \cup ForPrograms \cup ArithmeticPrograms

MaxWords == 4

MaxBody == 2

\* var x = 1; { var x = 2; print x; } print x;
ShadowSource ==
    <<"v", "a", "r", " ", "x", " ", "=", " ", "1", ";", " ", "{", " ", "v",
      "a", "r", " ", "x", " ", "=", " ", "2", ";", " ", "p", "r", "i", "n",
      "t", " ", "x", ";", " ", "}", " ", "p", "r", "i", "n", "t", " ", "x",
      ";">>

\* if (x) print 1; else { var y = 2; print y; }
IfSource ==
    <<"i", "f", " ", "(", "x", ")", " ", "p", "r", "i", "n", "t", " ", "1",
      ";", " ", "e", "l", "s", "e", " ", "{", " ", "v", "a", "r", " ", "y",
      " ", "=", " ", "2", ";", " ", "p", "r", "i", "n", "t", " ", "y", ";",
      " ", "}">>

\* if (y == 1) { y = 2; } print y;
IfOnlySource ==
    <<"i", "f", " ", "(", "y", " ", "=", "=", " ", "1", ")", " ", "{", " ",
      "y", " ", "=", " ", "2", ";", " ", "}", " ", "p", "r", "i", "n", "t",
      " ", "y", ";">>

\* print 2; print 1 / 0; print 3;
DivideSource ==
    <<"p", "r", "i", "n", "t", " ", "2", ";", " ", "p", "r", "i", "n", "t",
      " ", "1", " ", "/", " ", "0", ";", " ", "p", "r", "i", "n", "t", " ",
      "3", ";">>

\* var x = 2; print x; + ;
LateErrorSource ==
    <<"v", "a", "r", " ", "x", " ", "=", " ", "2", ";", " ", "p", "r", "i",
      "n", "t", " ", "x", ";", " ", "+", " ", ";">>

\* x = 2; { var y = 2; print y; ) }
BlockErrorSource ==
    <<"x", " ", "=", " ", "2", ";", " ", "{", " ", "v", "a", "r", " ", "y",
      " ", "=", " ", "2", ";", " ", "p", "r", "i", "n", "t", " ", "y", ";",
      " ", ")", " ", "}">>

\* var y = 2; print ); y = ( ; print y;
TwoErrorsSource ==
    <<"v", "a", "r", " ", "y", " ", "=", " ", "2", ";", " ", "p", "r", "i",
      "n", "t", " ", ")", ";", " ", "y", " ", "=", " ", "(", " ", ";", " ",
      "p", "r", "i", "n", "t", " ", "y", ";">>

\* nil and (1/0);
NilAndSource ==
    <<"n", "i", "l", " ", "a", "n", "d", " ", "(", "1", "/", "0", ")", ";">>

\* for (var i = 0; i < 3; i = i + 1) print i;
CountingSource ==
    <<"f", "o", "r", " ", "(", "v", "a", "r", " ", "i", " ", "=", " ", "0",
      ";", " ", "i", " ", "<", " ", "3", ";", " ", "i", " ", "=", " ", "i",
      " ", "+", " ", "1", ")", " ", "p", "r", "i", "n", "t", " ", "i", ";">>

\* left-hand sides of an assignment, each with the tree the grammar gives it
TargetForms ==
    {[src |-> <<"1">>, expr |-> Lit(Num(1))],
     [src |-> <<"(", "x", ")">>, expr |-> ExprGrouping(ExprVariable(Ident(X)))],
     [src |-> <<"-", "x">>, expr |-> ExprUnary(Op("Minus"), ExprVariable(Ident(X)))],
     [src |-> <<"!", "x">>, expr |-> ExprUnary(Op("Bang"), ExprVariable(Ident(X)))],
     [src |-> <<"x", "+", "y">>, expr |-> ExprBinary(ExprVariable(Ident(X)), Op("Plus"), ExprVariable(Ident(Y)))],
     [src |-> <<"x", "=", "=", "1">>, expr |-> ExprBinary(ExprVariable(Ident(X)), Op("EqualEqual"), Lit(Num(1)))],
     [src |-> <<"n", "i", "l">>, expr |-> Lit(NilValue)],
     [src |-> <<"x">>, expr |-> ExprVariable(Ident(X))],
     [src |-> <<"y">>, expr |-> ExprVariable(Ident(Y))]}

\* right-hand sides of an assignment, each with the tree the grammar gives it
ValueForms ==
    {[src |-> <<"2">>, expr |-> Lit(Num(2))],
     [src |-> <<"y", "=", "2">>, expr |-> ExprAssign(Ident(Y), Lit(Num(2)))],
     [src |-> <<"x", "=", "y", "=", "2">>, expr |-> ExprAssign(Ident(X), ExprAssign(Ident(Y), Lit(Num(2))))],
     [src |-> <<"(", "y", "=", "2", ")">>, expr |-> ExprGrouping(ExprAssign(Ident(Y), Lit(Num(2))))],
     [src |-> <<"x", "+", "1">>, expr |-> ExprBinary(ExprVariable(Ident(X)), Op("Plus"), Lit(Num(1)))]}

AssignSources ==
    {l.src \o <<"=">> \o r.src \o <<";">> : l \in TargetForms, r \in ValueForms}

\* print "a\"b";
EscapedQuoteSource ==
    <<"p", "r", "i", "n", "t", " ", "\"", "a", "\\", "\"", "b", "\"", ";">>

\* /* a */ print 1;
BlockCommentSource ==
    <<"/", "*", " ", "a", " ", "*", "/", " ", "p", "r", "i", "n", "t", " ",
      "1", ";">>

\* var x = 2;
DefineSource ==
    <<"v", "a", "r", " ", "x", " ", "=", " ", "2", ";">>

\* y = 2;
AssignSource ==
    <<"y", " ", "=", " ", "2", ";">>

\* print x;
PrintXSource ==
    <<"p", "r", "i", "n", "t", " ", "x", ";">>

\* print y;
PrintYSource ==
    <<"p", "r", "i", "n", "t", " ", "y", ";">>

\* var y = 3; print 1 / 0;
DefineThenFailSource ==
    <<"v", "a", "r", " ", "y", " ", "=", " ", "3", ";", " ", "p", "r", "i",
      "n", "t", " ", "1", " ", "/", " ", "0", ";">>

\* 1.2.3;
TwoPointsSource ==
    <<"1", ".", "2", ".", "3", ";">>

\* the lines typed at the prompt of the REPL
ReplSources ==
    {DefineSource, AssignSource, PrintXSource, PrintYSource, DefineThenFailSource,
     LateErrorSource, ShadowSource, IfOnlySource, TwoPointsSource}

\* print 1; print 2;
TwoPrintsSource ==
    <<"p", "r", "i", "n", "t", " ", "1", ";", " ", "p", "r", "i", "n", "t",
      " ", "2", ";">>

\* print 1; // c
\* print 2;
LineCommentSource ==
    <<"p", "r", "i", "n", "t", " ", "1", ";", " ", "/", "/", " ", "c", "\n",
      "p", "r", "i", "n", "t", " ", "2", ";">>

\* print 1; /* c */ print 2;
BetweenCommentSource ==
    <<"p", "r", "i", "n", "t", " ", "1", ";", " ", "/", "*", " ", "c", " ",
      "*", "/", " ", "p", "r", "i", "n", "t", " ", "2", ";">>

\* "a"
LastQuoteSource ==
    <<"\"", "a", "\"">>

\* the binary operators of the grammar and the level of each, tightest highest
BinaryOperators ==
    {"Star", "Slash", "Plus", "Minus", "Greater", "GreaterEqual", "Less", "LessEqual",
     "BangEqual", "EqualEqual"}

Level(o) ==
    CASE o \in {"Star", "Slash"} -> 4
      [] o \in {"Plus", "Minus"} -> 3
      [] o \in {"Greater", "GreaterEqual", "Less", "LessEqual"} -> 2
      [] o \in {"BangEqual", "EqualEqual"} -> 1

\* print e;
PrintSource(e) == <<"p", "r", "i", "n", "t", " ">> \o e \o <<";">>

\* print 2 + 3 * 4;
PrecedenceSource ==
    <<"p", "r", "i", "n", "t", " ", "2", " ", "+", " ", "3", " ", "*", " ",
      "4", ";">>

\* print (2 + 3) * 4;
GroupingSource ==
    <<"p", "r", "i", "n", "t", " ", "(", "2", " ", "+", " ", "3", ")", " ",
      "*", " ", "4", ";">>

\* print 8 - 4 - 2;
LeftSource ==
    <<"p", "r", "i", "n", "t", " ", "8", " ", "-", " ", "4", " ", "-", " ",
      "2", ";">>

\* 8 o1 4 o2 0, (8 o1 4) o2 0 and 8 o1 (4 o2 0) for every two operators,
\* each with the tree the grammar gives it; the operands keep every
\* quotient exact
PrecedenceForms ==
    {[src |-> PrintSource(<<"8">> \o Lexemes[o1] \o <<"4">> \o Lexemes[o2] \o <<"0">>),
      expr |-> IF Level(o2) > Level(o1)
               THEN ExprBinary(Lit(Num(8)), Op(o1), ExprBinary(Lit(Num(4)), Op(o2), Lit(Num(0))))
               ELSE ExprBinary(ExprBinary(Lit(Num(8)), Op(o1), Lit(Num(4))), Op(o2), Lit(Num(0)))] :
        o1 \in BinaryOperators, o2 \in BinaryOperators}
    \cup
    {[src |-> PrintSource(<<"(", "8">> \o Lexemes[o1] \o <<"4", ")">> \o Lexemes[o2] \o <<"0">>),
      expr |-> ExprBinary(ExprGrouping(ExprBinary(Lit(Num(8)), Op(o1), Lit(Num(4)))), Op(o2),
                          Lit(Num(0)))] :
        o1 \in BinaryOperators, o2 \in BinaryOperators}
    \cup
    {[src |-> PrintSource(<<"8">> \o Lexemes[o1] \o <<"(", "4">> \o Lexemes[o2] \o <<"0", ")">>),
      expr |-> ExprBinary(Lit(Num(8)), Op(o1),
                          ExprGrouping(ExprBinary(Lit(Num(4)), Op(o2), Lit(Num(0)))))] :
        o1 \in BinaryOperators, o2 \in BinaryOperators}
    \cup
    {[src |-> PrecedenceSource,
      expr |-> ExprBinary(Lit(Num(2)), Op("Plus"), ExprBinary(Lit(Num(3)), Op("Star"), Lit(Num(4))))],
     [src |-> GroupingSource,
      expr |-> ExprBinary(ExprGrouping(ExprBinary(Lit(Num(2)), Op("Plus"), Lit(Num(3)))),
                          Op("Star"), Lit(Num(4)))],
     [src |-> LeftSource,
      expr |-> ExprBinary(ExprBinary(Lit(Num(8)), Op("Minus"), Lit(Num(4))), Op("Minus"),
                          Lit(Num(2)))]}

SourceWords ==
    {<<"v", "a", "r", " ">>, <<"p", "r", "i", "n", "t", " ">>, <<"x">>, <<"=">>,
     <<"1">>, <<";">>}

\* the texts made of n words
RECURSIVE WordTexts(_)
WordTexts(n) ==
    IF n = 0 THEN {<<>>}
    ELSE {w \o t : w \in SourceWords, t \in WordTexts(n - 1)}

Sources ==
    UNION {WordTexts(n) : n \in 0..MaxWords} \cup AssignSources
    \cup {ShadowSource, IfSource, IfOnlySource, DivideSource, LateErrorSource,
          BlockErrorSource, TwoErrorsSource, NilAndSource, CountingSource}
    \cup {f.src : f \in PrecedenceForms}
    \cup {EscapedQuoteSource, BlockCommentSource, TwoPointsSource}
    \cup {TwoPrintsSource, LineCommentSource, BetweenCommentSource, LastQuoteSource}

Semicolon == TokenSimple("Semicolon", 1)

BodyTokens ==
    {TokenWithLiteral("Number", <<"1">>, Num(1), 1), Ident(X), Op("Plus"),
     Op("LeftParen"), Op("RightParen"), Op("Equal")}

\* the token sequences of 1..n tokens, none of them a semicolon
RECURSIVE Bodies(_)
Bodies(n) ==
    IF n = 0 THEN {}
    ELSE {<<t>> : t \in BodyTokens} \cup Bodies(n - 1)
         \cup {Append(b, t) : b \in Bodies(n - 1), t \in BodyTokens}

\* two statements, each ended by its semicolon, and the Eof of the scanner
TwoStatements(b1, b2) ==
    b1 \o <<Semicolon>> \o b2 \o <<Semicolon, TokenSimple("Eof", 1)>>

TokenSeqs == {TwoStatements(b1, b2) : b1 \in Bodies(MaxBody), b2 \in Bodies(MaxBody)}

Init ==
    /\ pc = "idle"
    /\ call = "none"
    /\ source = <<>>
    /\ tokens = <<>>
    /\ pos = 1
    /\ stmts = <<>>
    /\ errors = <<>>
    /\ \E g \in GlobalEnvs : scopes = <<[values |-> g, enclosing |-> 0]>>
    /\ frames = <<>>
    /\ raised = NoError
    /\ output = <<>>
    /\ result = NoResult
    /\ evals = <<>>

Step ==
    \/ InterpretReturn
    \/ execute_block
    \/ BlockReturn
    \/ execute_expression_stmt
    \/ execute_print_stmt
    \/ execute_var_stmt
    \/ execute_if_stmt
    \/ execute_for_stmt
    \/ ForCondition
    \/ ForIncrement
    \/ Propagate

NextInterp ==
    \/ \E statements \in Programs : Interpret(statements)
    \/ Step

SpecInterp == Init /\ [][NextInterp]_vars

NextParse == \E toks \in TokenSeqs : Parse(toks)

SpecParse == Init /\ [][NextParse]_vars

\* run, and the statements the parser can produce
NextRun ==
    \/ \E src \in Sources : Run(src)
    \/ InterpretReturn
    \/ execute_block
    \/ BlockReturn
    \/ execute_expression_stmt
    \/ execute_print_stmt
    \/ execute_var_stmt
    \/ execute_if_stmt
    \/ Propagate

SpecRun == Init /\ [][NextRun]_vars

\* the REPL: run on one line after the other, in one Environment
NextRepl ==
    \/ \E src \in ReplSources : Run(src)
    \/ InterpretReturn
    \/ execute_block
    \/ BlockReturn
    \/ execute_expression_stmt
    \/ execute_print_stmt
    \/ execute_var_stmt
    \/ execute_if_stmt
    \/ Propagate
    \/ ReadLine

SpecRepl == Init /\ [][NextRepl]_vars

Next ==
    \/ \E src \in Sources : Run(src)
    \/ \E toks \in TokenSeqs : Parse(toks)
    \/ \E statements \in Programs : Interpret(statements)
    \/ Step

Spec == Init /\ [][Next]_vars

(***************************************************************************)
(* Properties                                                              *)
(***************************************************************************)
\* the scopes of the chain that starts at e, e included
RECURSIVE Chain(_, _)
Chain(envs, e) ==
    IF e = 0 THEN {} ELSE {e} \cup Chain(envs, envs[e].enclosing)

\* the scopes of the chain from e that bind name
Binders(envs, e, name) == {j \in Chain(envs, e) : name \in DOMAIN envs[j].values}

\* the binder every other binder of the chain encloses
Nearest(envs, e, name) ==
    CHOOSE j \in Binders(envs, e, name) :
        \A b \in Binders(envs, e, name) : b \in Chain(envs, j)

Binding(envs, j, name) ==
    IF name \in DOMAIN envs[j].values
    THEN [bound |-> TRUE, value |-> envs[j].values[name]]
    ELSE [bound |-> FALSE, value |-> NilValue]

AllNames == Names \cup {I}

\* no scope is created or dropped, and no binding changes except,
\* possibly, that of name in scope j
OnlyChanges(j, name) ==
    /\ Len(scopes') = Len(scopes)
    /\ \A i \in DOMAIN scopes :
        /\ scopes'[i].enclosing = scopes[i].enclosing
        /\ \A m \in AllNames :
            (i # j \/ m # name) => Binding(scopes', i, m) = Binding(scopes, i, m)

\* C1: executing the statement `name = literal;` in any scope chain: when
\* the chain binds the name, the nearest binder (and nothing else) gets the
\* value and the statement succeeds; when no scope binds it, the statement
\* fails with the undefined-variable error and no binding is created or
\* changed.
C1_AssignNearestOrFail ==
    [][(HasCurrent /\ Current.k = "Expression" /\ Current.expression.k = "Assign"
            /\ Current.expression.value.k = "Literal") =>
        LET name == Current.expression.name.lexeme
            value == Current.expression.value.value
        IN  IF Binders(scopes, CurEnv, name) # {}
            THEN /\ pc' = "exec"
                 /\ Binding(scopes', Nearest(scopes, CurEnv, name), name)
                        = [bound |-> TRUE, value |-> value]
                 /\ OnlyChanges(Nearest(scopes, CurEnv, name), name)
            ELSE /\ pc' = "unwind"
                 /\ raised' = [message |-> "Undefined variable",
                               line |-> Current.expression.name.line]
                 /\ scopes' = scopes]_vars

\* an assignment made three blocks deep has changed the binding of the
\* outermost block and left the global binding of the same name alone
C1_Witness ==
    /\ pc = "exec"
    /\ Len(scopes) = 4
    /\ evals = <<ExprAssign(Ident(X), Lit(Num(3))), Lit(Num(3))>>
    /\ Binding(scopes, 4, X).bound = FALSE
    /\ Binding(scopes, 3, X).bound = FALSE
    /\ Binding(scopes, 2, X) = [bound |-> TRUE, value |-> Num(3)]
    /\ Binding(scopes, 1, X) = [bound |-> TRUE, value |-> Num(1)]

\* C2: executing `print name;` in any scope chain prints the value bound in
\* the innermost scope of the chain that binds the name, fails with the
\* undefined-variable error exactly when no scope of the chain binds it,
\* and changes no binding.
C2_GetInnermost ==
    [][(HasCurrent /\ Current.k = "Print" /\ Current.expression.k = "Variable") =>
        LET name == Current.expression.name.lexeme
        IN  /\ scopes' = scopes
            /\ IF Binders(scopes, CurEnv, name) # {}
               THEN /\ pc' = "exec"
                    /\ output' = Append(output,
                          ValueToString(scopes[Nearest(scopes, CurEnv, name)].values[name]))
               ELSE /\ pc' = "unwind"
                    /\ raised' = [message |-> "Undefined variable",
                                  line |-> Current.expression.name.line]
                    /\ output' = output]_vars

\* x was read in a block whose scope binds it to 2 while the global scope
\* binds it to 1, and 2 was printed
C2_Witness ==
    /\ pc = "exec"
    /\ Len(scopes) = 2
    /\ evals = <<ExprVariable(Ident(X))>>
    /\ Binding(scopes, 2, X) = [bound |-> TRUE, value |-> Num(2)]
    /\ Binding(scopes, 1, X) = [bound |-> TRUE, value |-> Num(1)]
    /\ output = <<<<"2">>>>

\* C3: executing `var name;` or `var name = literal;` always succeeds and
\* binds the name in the current scope to the value (Nil without an
\* initializer), whether or not the current scope bound it before, and
\* changes no other binding of any scope.
C3_DefineCurrentOnly ==
    [][(HasCurrent /\ Current.k = "Var"
            /\ (Current.initializer = None \/ Current.initializer.k = "Literal")) =>
        LET name == Current.name.lexeme
            value == IF Current.initializer = None THEN NilValue
                     ELSE Current.initializer.value
        IN  /\ pc' = "exec"
            /\ Binding(scopes', CurEnv, name) = [bound |-> TRUE, value |-> value]
            /\ OnlyChanges(CurEnv, name)]_vars

\* `var x;` ran in a block whose scope already bound x to 2: the block's
\* x is now Nil and the global x still 1
C3_Witness ==
    /\ pc = "exec"
    /\ Len(scopes) = 2
    /\ Len(frames) = 2
    /\ Top.k = "block"
    /\ Top.i = 3
    /\ Top.stmts[1] = StmtVar(Ident(X), Lit(Num(2)))
    /\ Top.stmts[2] = StmtVar(Ident(X), None)
    /\ Binding(scopes, 2, X) = [bound |-> TRUE, value |-> NilValue]
    /\ Binding(scopes, 1, X) = [bound |-> TRUE, value |-> Num(1)]

\* the block calls that are active before and after the step
LiveBlocks ==
    {k \in (DOMAIN frames) \cap (DOMAIN frames') :
        frames[k].k = "block" /\ frames'[k].k = "block" /\ frames'[k].env = frames[k].env}

\* C4: a variable a block declares stays inside the block: from the step
\* that declares x in the block's scope until the block ends, no step
\* changes the binding of x (its value, or its absence) in any enclosing
\* scope, so that after the block the enclosing binding is the one from
\* before the block unless the block assigned to the outer x before it
\* declared its own; a read of x in the block's scope after the declaration
\* yields the inner value; and `var x = 1; { var x = 2; print x; } print x;`
\* prints 2 then 1.
C4_BlockVariableDoesNotEscape ==
    [][/\ \A k \in LiveBlocks : \A name \in DOMAIN scopes'[frames[k].env].values :
            \A j \in Chain(scopes, frames[k].env) \ {frames[k].env} :
                Binding(scopes', j, name) = Binding(scopes, j, name)
       /\ (HasCurrent /\ Current.k = "Print" /\ Current.expression.k = "Variable"
              /\ Current.expression.name.lexeme \in DOMAIN scopes[CurEnv].values) =>
            output' = Append(output,
                ValueToString(scopes[CurEnv].values[Current.expression.name.lexeme]))
       /\ (stmts = ShadowProgram /\ pc' = "done") =>
            /\ result'.status = "ok"
            /\ output' = <<<<"2">>, <<"1">>>>
            /\ Binding(scopes', 1, X) = [bound |-> TRUE, value |-> Num(1)]]_vars

\* the program of the example has run to its end
C4_Witness ==
    /\ pc = "done"
    /\ call = "interpret"
    /\ stmts = ShadowProgram
    /\ output = <<<<"2">>, <<"1">>>>

\* C5: every active block has exactly one scope of its own, whose enclosing
\* scope is the scope of its caller, and there is no other scope but the
\* global one; the statement that runs next runs in the newest scope; and
\* when interpret has returned, with Ok or with an error raised at any
\* depth, only the global scope is left.
C5_BlockScopeReleased ==
    /\ Len(scopes) = 1 + Cardinality({k \in DOMAIN frames : frames[k].k = "block"})
    /\ scopes[1].enclosing = 0
    /\ \A k \in DOMAIN frames :
        /\ k = 1 => frames[k].k = "interpret" /\ frames[k].env = 1
        /\ (k > 1 /\ frames[k].k = "block") =>
              /\ frames[k].env = frames[k - 1].env + 1
              /\ scopes[frames[k].env].enclosing = frames[k - 1].env
        /\ (k > 1 /\ frames[k].k # "block") => frames[k].env = frames[k - 1].env
    /\ frames # <<>> => Top.env = Len(scopes)
    /\ pc = "done" => frames = <<>> /\ Len(scopes) = 1

\* a program that is one block has ended with a runtime error, raised two
\* blocks deep, and the global scope is the only scope
C5_Witness ==
    /\ pc = "done"
    /\ result.status = "err"
    /\ Len(stmts) = 1
    /\ stmts[1].k = "Block"
    /\ Len(stmts[1].statements) = 1
    /\ stmts[1].statements[1].k = "Block"
    /\ Len(scopes) = 1

\* the iterators (of interpret and of the blocks) active before and after
\* the step
LiveIterators ==
    {k \in (DOMAIN frames) \cap (DOMAIN frames') :
        frames[k].k \in {"interpret", "block"} /\ frames'[k].k = frames[k].k}

\* C6: interpret and every block take their statements one by one in their
\* order; a print or expression statement whose expression fails raises
\* that error; from the step in which a statement fails on, nothing is
\* printed, no surviving scope changes and no iterator moves, so no later
\* statement runs and what the earlier statements did stays; interpret
\* then returns exactly that one error.
C6_StopsAtFirstError ==
    [][/\ \A k \in LiveIterators :
            /\ frames'[k].stmts = frames[k].stmts
            /\ frames'[k].i \in {frames[k].i, frames[k].i + 1}
            /\ frames'[k].i = frames[k].i + 1 => k = Len(frames) /\ HasCurrent
       /\ (HasCurrent /\ Current.k \in {"Print", "Expression"}
              /\ ~evaluate_expression(scopes, CurEnv, Current.expression).ok) =>
            /\ pc' = "unwind"
            /\ raised' = evaluate_expression(scopes, CurEnv, Current.expression).error
       /\ (pc = "exec" /\ pc' = "unwind") =>
            /\ output' = output
            /\ frames' = frames
            /\ Len(scopes') = Len(scopes)
       /\ pc = "unwind" =>
            /\ pc' \in {"unwind", "done"}
            /\ output' = output
            /\ raised' = raised
            /\ \A j \in DOMAIN scopes' : scopes'[j] = scopes[j]
            /\ \A k \in DOMAIN frames' : frames'[k] = frames[k]
            /\ pc' = "done" => result' = [status |-> "err", errors |-> <<raised>>]
       /\ (pc = "exec" /\ pc' = "done") => result' = [status |-> "ok", errors |-> <<>>]]_vars

\* the second of three statements has failed after the first one printed:
\* the error is on its way out and the third statement has not run
C6_Witness ==
    /\ pc = "unwind"
    /\ Len(frames) = 1
    /\ frames[1].i = 2
    /\ Len(frames[1].stmts) = 3
    /\ output = <<<<"1">>>>

\* C7: whenever run is called on a source for which parse records at least
\* one ParseError, also one with well-formed statements before the
\* malformed one, the call ends at once with exactly the recorded errors as
\* its result: interpret is not called (no statement is ever executed or
\* expression evaluated), nothing is printed and the environment is left
\* as it was.
C7_ParseErrorsBeforeExecution ==
    /\ [][(call' = "run" /\ call # "run" /\ errors' # <<>>) =>
            /\ pc' = "done"
            /\ result' = [status |-> "err", errors |-> errors']
            /\ frames' = <<>>
            /\ evals' = evals
            /\ output' = output
            /\ scopes' = scopes]_vars
    /\ [](call = "run" /\ errors # <<>> =>
            pc = "done" /\ frames = <<>> /\ output = <<>> /\ evals = <<>>)

\* run has returned the one error of `var x = 2; print x; + ;`: the two
\* statements before it parsed, nothing was printed and x is not bound to 2
C7_Witness ==
    /\ pc = "done"
    /\ call = "run"
    /\ source = LateErrorSource
    /\ Len(stmts) = 2
    /\ result = [status |-> "err", errors |-> errors]
    /\ Len(errors) = 1
    /\ output = <<>>
    /\ Binding(scopes, 1, X).value # Num(2)

\* the index of the first semicolon of the tokens
FirstSemicolon(toks) ==
    CHOOSE i \in DOMAIN toks :
        /\ toks[i].type = "Semicolon"
        /\ \A j \in 1..(i - 1) : toks[j].type # "Semicolon"

\* the statement made of the body and its semicolon is malformed on its own
Malformed(body) == ~parse(body \o <<Semicolon, TokenSimple("Eof", 1)>>).ok

\* C8: when parse has returned for two statements separated by a semicolon
\* of which each is malformed on its own, it has recorded exactly two
\* ParseErrors.
C8_TwoMalformedTwoErrors ==
    (pc = "done" /\ call = "parse") =>
        LET i == FirstSemicolon(tokens)
            b1 == SubSeq(tokens, 1, i - 1)
            b2 == SubSeq(tokens, i + 1, Len(tokens) - 2)
        IN  (Malformed(b1) /\ Malformed(b2)) => Len(errors) = 2

\* C9: run on `target = value;`: when the target is anything but a bare
\* variable (a literal, a grouping, a unary or a binary expression) the
\* call ends with the ParseError that expected an identifier at the equals
\* sign and no statement; when it is a bare variable the one statement is
\* the Assign node of that variable whose value is the whole right-hand
\* side, so that `a = b = v` is Assign(a, Assign(b, v)).  Executing
\* `a = b = v;` assigns to b first: with b unbound nothing changes and the
\* error is b's; with only a unbound b has the value and the error is a's;
\* else both have the value.
C9_AssignmentTarget ==
    [][/\ \A l \in TargetForms, r \in ValueForms :
            (call' = "run" /\ call # "run"
                /\ source' = l.src \o <<"=">> \o r.src \o <<";">>) =>
                IF l.expr.k = "Variable"
                THEN /\ pc' = "exec"
                     /\ errors' = <<>>
                     /\ stmts' = <<StmtExpression(ExprAssign(l.expr.name, r.expr))>>
                ELSE /\ pc' = "done"
                     /\ stmts' = <<>>
                     /\ result' = [status |-> "err",
                                   errors |-> <<ParseError(<<"Identifier">>, Op("Equal"))>>]
       /\ (HasCurrent /\ Current.k = "Expression" /\ Current.expression.k = "Assign"
              /\ Current.expression.value.k = "Assign"
              /\ Current.expression.value.value.k = "Literal") =>
            LET a == Current.expression.name
                b == Current.expression.value.name
                v == [bound |-> TRUE, value |-> Current.expression.value.value.value]
                Others == \A j \in DOMAIN scopes : \A m \in AllNames \ {a.lexeme, b.lexeme} :
                              Binding(scopes', j, m) = Binding(scopes, j, m)
            IN  IF Binders(scopes, CurEnv, b.lexeme) = {}
                THEN /\ pc' = "unwind"
                     /\ raised' = [message |-> "Undefined variable", line |-> b.line]
                     /\ scopes' = scopes
                ELSE IF Binders(scopes, CurEnv, a.lexeme) = {}
                THEN /\ pc' = "unwind"
                     /\ raised' = [message |-> "Undefined variable", line |-> a.line]
                     /\ Binding(scopes', Nearest(scopes, CurEnv, b.lexeme), b.lexeme) = v
                     /\ OnlyChanges(Nearest(scopes, CurEnv, b.lexeme), b.lexeme)
                ELSE /\ pc' = "exec"
                     /\ Binding(scopes', Nearest(scopes, CurEnv, b.lexeme), b.lexeme) = v
                     /\ Binding(scopes', Nearest(scopes, CurEnv, a.lexeme), a.lexeme) = v
                     /\ Len(scopes') = Len(scopes)
                     /\ Others]_vars

\* run has returned for `(x) = 2;` with the one error of the assignment
\* target
C9_Witness ==
    /\ pc = "done"
    /\ call = "run"
    /\ source = <<"(", "x", ")", "=", "2", ";">>
    /\ stmts = <<>>
    /\ result = [status |-> "err",
                 errors |-> <<ParseError(<<"Identifier">>, Op("Equal"))>>]

\* C11: a For statement starts its loop with the initializer, when there
\* is one, as the one statement to run before the first condition; a loop
\* never runs its initializer again.  Whenever the loop is at its top the
\* condition is evaluated: an error of it is raised, a truthy value makes
\* the body the next statement and the increment the step after the body,
\* a falsy value ends the loop with nothing of it left to run.  After the
\* body the increment, when there is one, is the next statement and the
\* loop is back at its top.  An error raised below a loop removes the loop
\* without another step of it.  `for (var i = 0; i < 3; i = i + 1) print i;`
\* prints 0, 1, 2 and ends with Ok; a loop that fails in its initializer,
\* condition, body or increment ends the program with that one error.
C11_ForLoop ==
    [][/\ (HasCurrent /\ Current.k = "For") =>
            LET loop == [k |-> "for", stmt |-> Current, at |-> "cond", env |-> CurEnv]
            IN  /\ pc' = "exec" /\ scopes' = scopes /\ output' = output
                /\ frames' = IF Current.initializer = None THEN Append(Consumed, loop)
                              ELSE Consumed \o <<loop, StmtFrame(Current.initializer, CurEnv)>>
       /\ (pc = "exec" /\ Top.k = "for" /\ Top.at = "cond") =>
            LET r == evaluate_expression(scopes, CurEnv, Top.stmt.condition)
            IN  /\ output' = output
                /\ scopes' = r.envs
                /\ CASE ~r.ok -> pc' = "unwind" /\ raised' = r.error /\ frames' = frames
                     [] r.ok /\ is_truthy(r.value) ->
                          /\ pc' = "exec"
                          /\ frames' = Pop(frames) \o <<[Top EXCEPT !.at = "incr"],
                                                         StmtFrame(Top.stmt.body, CurEnv)>>
                     [] r.ok /\ ~is_truthy(r.value) ->
                          pc' = "exec" /\ frames' = Pop(frames)
       /\ (pc = "exec" /\ Top.k = "for" /\ Top.at = "incr") =>
            /\ pc' = "exec" /\ scopes' = scopes /\ output' = output
            /\ frames' = IF Top.stmt.increment = None
                          THEN Append(Pop(frames), [Top EXCEPT !.at = "cond"])
                          ELSE Pop(frames) \o <<[Top EXCEPT !.at = "cond"],
                                                StmtFrame(Top.stmt.increment, CurEnv)>>
       /\ (pc = "unwind" /\ frames # <<>> /\ Top.k = "for") =>
            frames' = Pop(frames) /\ output' = output /\ scopes' = scopes
       /\ (stmts = <<CountingLoop>> /\ pc' = "done") =>
            /\ result' = [status |-> "ok", errors |-> <<>>]
            /\ output' = <<<<"0">>, <<"1">>, <<"2">>>>
       /\ (stmts \in FailingLoops /\ pc' = "done") =>
            /\ result' = [status |-> "err",
                          errors |-> <<[message |-> "Can't divide by zero", line |-> 1]>>]
            /\ output' = IF stmts[1].increment = None THEN <<>> ELSE <<<<"1">>>>]_vars

\* the counting loop has ended after its fourth condition, the falsy one:
\* three lines are printed and i is 3
C11_Witness ==
    /\ pc = "done"
    /\ call = "interpret"
    /\ stmts = <<CountingLoop>>
    /\ output = <<<<"0">>, <<"1">>, <<"2">>>>
    /\ Binding(scopes, 1, I) = [bound |-> TRUE, value |-> Num(3)]

\* C12: run on `nil and (1/0);` parses to the one expression statement
\* whose expression is the Logical node of nil, `and` and the grouped
\* division, and returns Ok: no parse error and no runtime error.
C12_NilAndDivide ==
    (call = "run" /\ source = NilAndSource) =>
        /\ errors = <<>>
        /\ stmts = <<StmtExpression(ExprLogical(Lit(NilValue), Op("And"),
                                                ExprGrouping(DivideByZero)))>>
        /\ pc = "done" => result = [status |-> "ok", errors |-> <<>>]

\* C13: run on `for (var i = 0; i < 3; i = i + 1) print i;` parses to the
\* one For statement of the counting loop and, when it has returned, has
\* printed 0, 1, 2 and returned Ok.
C13_CountingLoopRuns ==
    (call = "run" /\ source = CountingSource) =>
        /\ errors = <<>>
        /\ stmts = <<CountingLoop>>
        /\ pc = "done" =>
              /\ result = [status |-> "ok", errors |-> <<>>]
              /\ output = <<<<"0">>, <<"1">>, <<"2">>>>

\* the current statement is `var name = l op r;` with literal operands
ArithmeticStep ==
    /\ HasCurrent
    /\ Current.k = "Var"
    /\ Current.initializer # None
    /\ Current.initializer.k = "Binary"
    /\ Current.initializer.operator.type \in ArithmeticOperators
    /\ Current.initializer.left.k = "Literal"
    /\ Current.initializer.right.k = "Literal"

\* the step has bound the variable of the statement to the Number n/d
DefinedFraction(n, d) ==
    LET q == Binding(scopes', CurEnv, Current.name.lexeme)
    IN  /\ pc' = "exec"
        /\ q.bound
        /\ q.value.t = "Number"
        /\ q.value.den > 0
        /\ q.value.num * d = n * q.value.den

\* C14: executing `var name = l / r;` with two Numbers: when r is zero the
\* statement fails with the division-by-zero error and binds nothing; when
\* r is not zero it binds the name to the Number q with q * r = l.
C14_DivisionByZero ==
    [][(ArithmeticStep /\ Current.initializer.operator.type = "Slash"
            /\ Current.initializer.left.value.t = "Number"
            /\ Current.initializer.right.value.t = "Number") =>
        LET l == Current.initializer.left.value
            r == Current.initializer.right.value
        IN  IF r.num = 0
            THEN /\ pc' = "unwind"
                 /\ raised' = [message |-> "Can't divide by zero",
                               line |-> Current.initializer.operator.line]
                 /\ scopes' = scopes
            ELSE DefinedFraction(l.num * r.den, l.den * r.num)]_vars

\* `var x = 1 / 0;` has failed with the division-by-zero error
C14_Witness ==
    /\ pc = "done"
    /\ stmts = <<StmtVar(Ident(X), DivideByZero)>>
    /\ result = [status |-> "err",
                 errors |-> <<[message |-> "Can't divide by zero", line |-> 1]>>]

\* C15: executing `var name = l op r;` for op one of + - * / and any two
\* values: `+` with a String on either side binds the String made of the
\* text of l followed by the text of r ("x" + 1 is "x1", 1 + "x" is "1x");
\* two Numbers give the Number of the sum, difference, product or quotient
\* (the division by zero apart); every other combination fails with an
\* error about the operand types and binds nothing.
C15_PlusAndTypes ==
    [][ArithmeticStep =>
        LET l == Current.initializer.left.value
            r == Current.initializer.right.value
            op == Current.initializer.operator.type
            q == Binding(scopes', CurEnv, Current.name.lexeme)
        IN  IF op = "Plus" /\ (l.t = "Str" \/ r.t = "Str")
            THEN /\ pc' = "exec"
                 /\ q = [bound |-> TRUE,
                         value |-> StrValue(ValueToString(l) \o ValueToString(r))]
                 /\ (l = StrValue(<<"x">>) /\ r = Num(1)) => q.value.s = <<"x", "1">>
                 /\ (l = Num(1) /\ r = StrValue(<<"x">>)) => q.value.s = <<"1", "x">>
            ELSE IF l.t = "Number" /\ r.t = "Number"
            THEN /\ op = "Plus" =>
                        DefinedFraction(l.num * r.den + r.num * l.den, l.den * r.den)
                 /\ op = "Minus" =>
                        DefinedFraction(l.num * r.den - r.num * l.den, l.den * r.den)
                 /\ op = "Star" => DefinedFraction(l.num * r.num, l.den * r.den)
                 /\ op = "Slash" =>
                        r.num = 0 \/ DefinedFraction(l.num * r.den, l.den * r.num)
            ELSE /\ pc' = "unwind"
                 /\ raised'.message \in
                        {"Operator is not valid for string concatenation",
                         "Cannot perform arithmetic on non-numeric values"}
                 /\ raised'.line = Current.initializer.operator.line
                 /\ scopes' = scopes]_vars

\* `var x = 1 + "x";` has bound x to "1x"
C15_Witness ==
    /\ pc = "done"
    /\ stmts = <<StmtVar(Ident(X), ExprBinary(Lit(Num(1)), Op("Plus"), Lit(StrValue(<<"x">>))))>>
    /\ Binding(scopes, 1, X) = [bound |-> TRUE, value |-> StrValue(<<"1", "x">>)]

\* C16: run on `print e;`, e made of three operands and two binary
\* operators, parses e by the levels of the grammar: the tighter operator
\* takes the middle operand, two operators of one level group to the left,
\* and a parenthesised expression is one operand. `print 2 + 3 * 4;` prints
\* 14, `print (2 + 3) * 4;` prints 20 and `print 8 - 4 - 2;` prints 2.
C16_Precedence ==
    call = "run" =>
        /\ \A f \in PrecedenceForms :
               source = f.src => errors = <<>> /\ stmts = <<StmtPrint(f.expr)>>
        /\ (pc = "done" /\ source = PrecedenceSource) =>
               result.status = "ok" /\ output = <<<<"1", "4">>>>
        /\ (pc = "done" /\ source = GroupingSource) =>
               result.status = "ok" /\ output = <<<<"2", "0">>>>
        /\ (pc = "done" /\ source = LeftSource) =>
               result.status = "ok" /\ output = <<<<"2">>>>

\* `print 2 + 3 * 4;` has printed 14
C16_Witness ==
    /\ pc = "done"
    /\ call = "run"
    /\ source = PrecedenceSource
    /\ stmts = <<StmtPrint(ExprBinary(Lit(Num(2)), Op("Plus"),
                                      ExprBinary(Lit(Num(3)), Op("Star"), Lit(Num(4)))))>>
    /\ output = <<<<"1", "4">>>>

\* C17: in `print "a\"b";` the quote after the backslash does not end the
\* literal: the second token is the String token whose lexeme runs to the
\* last quote and contains the escaped one.
C17_EscapedQuoteContinues ==
    (call = "run" /\ source = EscapedQuoteSource) =>
        /\ Len(tokens) >= 2
        /\ tokens[2].type = "Str"
        /\ tokens[2].lexeme = <<"\"", "a", "\\", "\"", "b", "\"">>

\* C18: scanning `/* a */ print 1;` gives one Comment token for the whole
\* comment, no token for its closing slash, and then the tokens of
\* `print 1;`.
C18_BlockCommentOneToken ==
    (call = "run" /\ source = BlockCommentSource) =>
        /\ Len(tokens) = 5
        /\ tokens[1] = TokenWithLexeme("Comment", <<"/", "*", " ", "a", " ", "*", "/">>, 1)
        /\ tokens[2].type = "Print"
        /\ \A k \in 1..Len(tokens) : tokens[k].type # "Slash"

C20_TwoPointsScans ==
    (call = "run" /\ source = TwoPointsSource) =>
        /\ result.status # "panic"
        /\ tokens # <<>>
        /\ tokens[Len(tokens)].type = "Eof"
        /\ \A k \in 1..Len(tokens) :
               tokens[k].type = "Number" =>
                   Cardinality({j \in 1..Len(tokens[k].lexeme) : tokens[k].lexeme[j] = "."}) <= 1

\* C21: when parse has returned for two statements `b1 ; b2 ;` whose bodies
\* hold no semicolon and no keyword, an error in the first has discarded no
\* token beyond the first semicolon, also when that semicolon raised the
\* error: a second statement that is well-formed on its own is parsed, and
\* it is the last statement of the result.
C21_RecoveryStopsAtBoundary ==
    (pc = "done" /\ call = "parse") =>
        LET i == FirstSemicolon(tokens)
            b2 == SubSeq(tokens, i + 1, Len(tokens) - 2)
            alone == parse(b2 \o <<Semicolon, TokenSimple("Eof", 1)>>)
        IN  alone.ok =>
                /\ stmts # <<>>
                /\ stmts[Len(stmts)] = alone.statements[1]

\* C22: run treats `print 1; print 2;` the same with a line comment or a
\* block comment between the two statements: the Comment token causes no
\* ParseError, the two statements are the ones parsed, and when the call
\* has returned it returned Ok and has printed 1 and 2.
C22_CommentsTransparent ==
    (call = "run" /\ source \in {TwoPrintsSource, LineCommentSource, BetweenCommentSource}) =>
        /\ errors = <<>>
        /\ stmts = <<StmtPrint(Lit(Num(1))), StmtPrint(Lit(Num(2)))>>
        /\ pc = "done" =>
               /\ result = [status |-> "ok", errors |-> <<>>]
               /\ output = <<<<"1">>, <<"2">>>>

\* C23: scanning the text `"a"`, whose closing quote is its last
\* character, gives the one String token of line 1 whose value is a, and
\* then Eof.
C23_ClosingQuoteLast ==
    (call = "run" /\ source = LastQuoteSource) =>
        tokens = <<TokenWithLiteral("Str", <<"\"", "a", "\"">>, StrValue(<<"a">>), 1),
                   TokenSimple("Eof", 1)>>

\* C24: a For statement runs in the scope it is executed in.  Entering the
\* loop, evaluating its condition and starting its increment create no
\* scope, and the initializer, the body and the increment run in the scope
\* of the statement.  A `var` initializer binds its name in that scope,
\* over a binding the scope already has, and leaves every other scope as
\* it is.  `var y = x; for (var x = 0; x < 2; x = x + 1) print x; print x;`
\* started with x = 1 prints 0, 1, 2 and ends with x = 2 and y = 1 in the
\* one global scope; the same loop and print inside a block print 0, 1, 2
\* and leave the global scope as it was.
C24_ForHasNoScope ==
    [][/\ (HasCurrent /\ Current.k = "For") =>
             /\ scopes' = scopes
             /\ \A k \in (Len(Consumed) + 1)..Len(frames') : frames'[k].env = CurEnv
       /\ (pc = "exec" /\ Top.k = "for") =>
             /\ Len(scopes') = Len(scopes)
             /\ pc' = "exec" => \A k \in Len(frames)..Len(frames') : frames'[k].env = Top.env
       /\ (HasCurrent /\ Top.k = "stmt" /\ Len(frames) >= 2 /\ Current.k = "Var"
               /\ frames[Len(frames) - 1].k = "for"
               /\ frames[Len(frames) - 1].stmt.initializer = Current
               /\ Current.initializer.k = "Literal") =>
             LET e == frames[Len(frames) - 1].env
             IN  /\ CurEnv = e
                 /\ scopes' = [scopes EXCEPT ![e].values =
                                   Insert(@, Current.name.lexeme, Current.initializer.value)]
       /\ (call = "interpret" /\ stmts = GlobalLoopProgram /\ pc' = "done"
               /\ X \in DOMAIN scopes[1].values) =>
             /\ result' = [status |-> "ok", errors |-> <<>>]
             /\ output' = <<<<"0">>, <<"1">>, <<"2">>>>
             /\ Len(scopes') = 1
             /\ Binding(scopes', 1, X) = [bound |-> TRUE, value |-> Num(2)]
             /\ Binding(scopes', 1, Y) = [bound |-> TRUE, value |-> Num(1)]
       /\ (call = "interpret" /\ stmts = BlockLoopProgram /\ pc' = "done") =>
             /\ result' = [status |-> "ok", errors |-> <<>>]
             /\ output' = <<<<"0">>, <<"1">>, <<"2">>>>
             /\ Len(scopes') = 1
             /\ Binding(scopes', 1, X).bound => Binding(scopes', 1, X).value = Num(1)]_vars

\* the loop has overwritten the x = 1 that `var y = x;` copied, and x is
\* bound to 2 in the global scope after the loop and the last print
C24_Witness ==
    /\ pc = "done"
    /\ call = "interpret"
    /\ stmts = GlobalLoopProgram
    /\ Len(scopes) = 1
    /\ Binding(scopes, 1, X) = [bound |-> TRUE, value |-> Num(2)]
    /\ Binding(scopes, 1, Y) = [bound |-> TRUE, value |-> Num(1)]
    /\ output = <<<<"0">>, <<"1">>, <<"2">>>>

\* C10: executing `print left op right;` or `left op right;` with op `and`
\* or `or` (the value is printed by the former, dropped by the latter): the left
\* operand is evaluated first and once; when it fails its error is the
\* result; for `or` with a truthy and for `and` with a falsy left value the
\* left value is printed and nothing of the right operand is evaluated (no
\* assignment of it is made, no error of it raised); otherwise the right
\* operand is evaluated once, after the left one, and its value printed or
\* its error raised.
C10_LogicalShortCircuit ==
    [][(HasCurrent /\ Current.k \in {"Print", "Expression"}
            /\ Current.expression.k = "Logical") =>
        LET e == Current.expression
            l == evaluate_expression(scopes, CurEnv, e.left)
            r == evaluate_expression(l.envs, CurEnv, e.right)
            short == \/ e.operator.type = "Or" /\ is_truthy(l.value)
                     \/ e.operator.type = "And" /\ ~is_truthy(l.value)
            Printed(value) == IF Current.k = "Print"
                              THEN Append(output, ValueToString(value)) ELSE output
        IN  CASE ~l.ok ->
                   /\ pc' = "unwind" /\ raised' = l.error
                   /\ evals' = <<e>> \o l.evals /\ scopes' = l.envs /\ output' = output
              [] l.ok /\ short ->
                   /\ pc' = "exec"
                   /\ evals' = <<e>> \o l.evals /\ scopes' = l.envs
                   /\ output' = Printed(l.value)
              [] l.ok /\ ~short /\ r.ok ->
                   /\ pc' = "exec"
                   /\ evals' = <<e>> \o l.evals \o r.evals /\ scopes' = r.envs
                   /\ output' = Printed(r.value)
              [] l.ok /\ ~short /\ ~r.ok ->
                   /\ pc' = "unwind" /\ raised' = r.error
                   /\ evals' = <<e>> \o l.evals \o r.evals /\ scopes' = r.envs
                   /\ output' = output]_vars

\* `print nil and 1 / 0;` has printed nil: only the node and its left
\* operand were evaluated
C10_Witness ==
    /\ pc = "exec"
    /\ evals = <<ExprLogical(Lit(NilValue), Op("And"), DivideByZero), Lit(NilValue)>>
    /\ output = <<<<"n", "i", "l">>>>

====
